---- MODULE Spec2Model ----
(***************************************************************************)
(* State-machine model of the three ERC-8004 registries for Solana:        *)
(*   programs/identity-registry, programs/reputation-registry and          *)
(*   programs/validation-registry.                                         *)
(*                                                                         *)
(* Every instruction is one atomic step.  An instruction is modelled as an *)
(* operator that takes the instruction's arguments (a record `ix`) and     *)
(* returns [err, accounts]: the error code ("Ok" on success) and the       *)
(* account store the handler leaves behind.  The runtime commits the store *)
(* only when the instruction returned Ok; otherwise every write is rolled  *)
(* back and only the call's outcome (`last`) is observable.                *)
(*                                                                         *)
(* An account store maps a PDA's seeds to the account's data; an address   *)
(* that is not in the store's domain holds no account.  Anchor validates   *)
(* the accounts of an instruction before its handler runs: it first loads  *)
(* the accounts that must exist, then runs the `init` / `init_if_needed`   *)
(* constraints, then the remaining constraints, in field order.            *)
(***************************************************************************)
EXTENDS Integers, Sequences, FiniteSets, TLC

VARIABLES
    idAccounts,        \* identity-registry accounts: config, agent, metadata_ext
    tokenAccounts,     \* SPL token accounts of the agent NFTs (the ownership oracle)
    registeredEvents,  \* the Registered events emitted so far, in order
    repAccounts,       \* reputation-registry accounts
    valAccounts,       \* validation-registry accounts
    last               \* the last instruction: its name and error code

vars == <<idAccounts, tokenAccounts, registeredEvents, repAccounts, valAccounts, last>>

----------------------------------------------------------------------------
(* Bounds of the model *)

\* Scalars come from these sample sets.
Addresses == {"alice", "bob", "carol"}
Mints == {"mintA", "mintB"}
CollectionMint == "collectionMint"
IdentityProgram == "identity_registry"
DefaultPubkey == "11111111111111111111111111111111"

\* Unix timestamps the host clock may report.
Times == {1700000000, 1700000060}

\* A string or byte blob is its identity together with its length in bytes.
Str(name, len) == [name |-> name, len |-> len]
StrLen(s) == s.len
EmptyString == Str("", 0)

Ok == "Ok"
None == -1

\* u64::MAX is 2^64 - 1.  The model checker's integers are 32 bits wide, so the
\* model's u64 counters saturate at 2^31 - 1.
U64_MAX == (2 ^ 30 - 1) + 2 ^ 30

\* u64::wrapping_add: an addition that wraps around instead of failing.
wrapping_add(a, b) == IF a > U64_MAX - b THEN a - (U64_MAX - b) - 1 ELSE a + b

checked_add(a, b) == IF a > U64_MAX - b THEN None ELSE a + b
checked_sub(a, b) == IF a < b THEN None ELSE a - b

\* `x as u8`
as_u8(x) == x % 256

Result(e, store) == [err |-> e, accounts |-> store]

\* Writes one account into a store (creating it when absent).
Put(store, key, data) == [k \in DOMAIN store \cup {key} |-> IF k = key THEN data ELSE store[k]]

\* Removes one account from a store.
Remove(store, key) == [k \in DOMAIN store \ {key} |-> store[k]]

\* `init_if_needed`: the existing account, or a freshly allocated zeroed one.
InitIfNeeded(store, key, zeroed) == IF key \in DOMAIN store THEN store[key] ELSE zeroed

----------------------------------------------------------------------------
(* Identity registry: state.rs *)

MAX_METADATA_ENTRIES == 10
MAX_URI_LENGTH == 200
MAX_KEY_LENGTH == 32
MAX_VALUE_LENGTH == 256

ConfigSeeds == <<"config">>
AgentSeeds(agent_mint) == <<"agent", agent_mint>>
MetadataExtSeeds(agent_mint, extension_index) == <<"metadata_ext", agent_mint, extension_index>>

\* The associated token account of (mint, owner), and a second token account
\* the same owner may open for the same mint.
AssociatedTokenAccount(mint, owner) == <<"ata", mint, owner>>
AuxTokenAccount(mint, owner) == <<"aux", mint, owner>>

MetadataEntry(key, value) == [key |-> key, value |-> value]

\* AgentAccount::find_metadata_mut: the position of the first entry with the key, 0 if none.
find_metadata(metadata, key) ==
    IF \E i \in 1..Len(metadata) : metadata[i].key = key
    THEN CHOOSE i \in 1..Len(metadata) :
            /\ metadata[i].key = key
            /\ \A j \in 1..(i - 1) : metadata[j].key # key
    ELSE 0

----------------------------------------------------------------------------
(* Identity registry: initialize *)

\* ix: [authority, collection_mint]
\* An initialize that writes the config whether or not it exists.
initialize_again(ix) ==
    Result(Ok, Put(idAccounts, ConfigSeeds,
                   [authority |-> ix.authority, next_agent_id |-> 0, total_agents |-> 0,
                    collection_mint |-> ix.collection_mint]))

initialize(ix) ==
    IF ConfigSeeds \in DOMAIN idAccounts
    THEN Result("AccountAlreadyInUse", idAccounts)
    ELSE Result(Ok, Put(idAccounts, ConfigSeeds,
                        [authority |-> ix.authority,
                         next_agent_id |-> 0,
                         total_agents |-> 0,
                         collection_mint |-> ix.collection_mint]))

----------------------------------------------------------------------------
(* Identity registry: register_empty / register / register_with_metadata *)

\* The first entry (in list order) that violates a length limit decides the error.
MetadataError(metadata) ==
    LET bad == {i \in 1..Len(metadata) :
                    \/ StrLen(metadata[i].key) > MAX_KEY_LENGTH
                    \/ StrLen(metadata[i].value) > MAX_VALUE_LENGTH}
    IN  IF bad = {} THEN Ok
        ELSE LET i == CHOOSE i \in bad : \A j \in bad : i <= j
             IN  IF StrLen(metadata[i].key) > MAX_KEY_LENGTH THEN "KeyTooLong" ELSE "ValueTooLong"

\* #[derive(Accounts)] Register.  ix: [owner, authority, agent_mint, collection_mint, ...]
\* The agent mint, the agent account and the owner's associated token account are
\* created by the instruction; a mint is created together with its agent account.
RegisterAccounts(ix) ==
    IF ConfigSeeds \notin DOMAIN idAccounts THEN "AccountNotInitialized"
    ELSE IF AgentSeeds(ix.agent_mint) \in DOMAIN idAccounts THEN "AccountAlreadyInUse"
    ELSE IF ix.authority # idAccounts[ConfigSeeds].authority THEN "ConstraintRaw"
    ELSE IF ix.collection_mint # idAccounts[ConfigSeeds].collection_mint THEN "ConstraintRaw"
    ELSE Ok

\* The agent id a registration is given, and the counter it leaves behind.
\* Ids that are handed out from 1.
AssignAgentId_oneBased(cfg) == cfg.next_agent_id + 1

AssignAgentId(cfg) == cfg.next_agent_id

\* A registration that bumps total_agents but leaves next_agent_id alone.
IncrementNextAgentId_forgotten(cfg) == cfg.next_agent_id

IncrementNextAgentId(cfg) == checked_add(cfg.next_agent_id, 1)

\* ix: [owner, authority, agent_mint, collection_mint, token_uri, metadata, now]
\* Returns [err, accounts, tokens, events].
register_internal(ix) ==
    LET Abort(e) == [err |-> e, accounts |-> idAccounts, tokens |-> tokenAccounts,
                     events |-> registeredEvents]
        accountsErr == RegisterAccounts(ix)
    IN
    IF accountsErr # Ok THEN Abort(accountsErr)
    ELSE IF ~(StrLen(ix.token_uri) <= MAX_URI_LENGTH) THEN Abort("UriTooLong")
    ELSE IF ~(Len(ix.metadata) <= MAX_METADATA_ENTRIES) THEN Abort("MetadataLimitReached")
    ELSE IF MetadataError(ix.metadata) # Ok THEN Abort(MetadataError(ix.metadata))
    ELSE
    LET cfg == idAccounts[ConfigSeeds]
        agent_id == AssignAgentId(cfg)
        next_agent_id == IncrementNextAgentId(cfg)
        total_agents == checked_add(cfg.total_agents, 1)
    IN
    IF next_agent_id = None \/ total_agents = None THEN Abort("Overflow")
    ELSE
    LET cfg1 == [cfg EXCEPT !.next_agent_id = next_agent_id, !.total_agents = total_agents]
        agent == [agent_id |-> agent_id,
                  owner |-> ix.owner,
                  agent_mint |-> ix.agent_mint,
                  token_uri |-> ix.token_uri,
                  metadata |-> ix.metadata,
                  created_at |-> ix.now]
    IN  [err |-> Ok,
         accounts |-> Put(Put(idAccounts, ConfigSeeds, cfg1), AgentSeeds(ix.agent_mint), agent),
         \* token::mint_to: one unit into the owner's associated token account
         tokens |-> Put(tokenAccounts, AssociatedTokenAccount(ix.agent_mint, ix.owner),
                        [mint |-> ix.agent_mint, owner |-> ix.owner, amount |-> 1]),
         events |-> Append(registeredEvents,
                           [agent_id |-> agent_id, token_uri |-> ix.token_uri,
                            owner |-> ix.owner, agent_mint |-> ix.agent_mint])]

register_empty(ix) == register_internal([ix EXCEPT !.token_uri = EmptyString, !.metadata = <<>>])

register(ix) == register_internal([ix EXCEPT !.metadata = <<>>])

register_with_metadata(ix) == register_internal(ix)

----------------------------------------------------------------------------
(* Identity registry: owner-gated mutation *)

\* An ownership constraint that was left out.
IsAgentOwner_unchecked(agent, signer) == TRUE

\* constraint = owner.key() == agent_account.owner @ IdentityError::Unauthorized
IsAgentOwner(agent, signer) == signer = agent.owner

\* Setting an entry without the limit on new keys.
SetEntry_uncapped(metadata, key, value) ==
    LET i == find_metadata(metadata, key) IN
    IF i # 0 THEN [err |-> Ok, metadata |-> [metadata EXCEPT ![i].value = value]]
    ELSE [err |-> Ok, metadata |-> Append(metadata, MetadataEntry(key, value))]

\* The entry list after setting key to value, or the error (set_metadata and
\* set_metadata_extended share the code).
SetEntry(metadata, key, value) ==
    LET i == find_metadata(metadata, key) IN
    IF i # 0 THEN [err |-> Ok, metadata |-> [metadata EXCEPT ![i].value = value]]
    ELSE IF ~(Len(metadata) < MAX_METADATA_ENTRIES)
         THEN [err |-> "MetadataLimitReached", metadata |-> metadata]
         ELSE [err |-> Ok, metadata |-> Append(metadata, MetadataEntry(key, value))]

\* get_metadata: the value of the first entry with the key, or the empty value.
get_metadata(agent, key) ==
    LET i == find_metadata(agent.metadata, key)
    IN  IF i # 0 THEN agent.metadata[i].value ELSE EmptyString

\* ix: [owner, agent_mint, key, value]
set_metadata(ix) ==
    LET k == AgentSeeds(ix.agent_mint) IN
    IF k \notin DOMAIN idAccounts THEN Result("AccountNotInitialized", idAccounts)
    ELSE IF ~IsAgentOwner(idAccounts[k], ix.owner) THEN Result("Unauthorized", idAccounts)
    ELSE IF ~(StrLen(ix.key) <= MAX_KEY_LENGTH) THEN Result("KeyTooLong", idAccounts)
    ELSE IF ~(StrLen(ix.value) <= MAX_VALUE_LENGTH) THEN Result("ValueTooLong", idAccounts)
    ELSE LET r == SetEntry(idAccounts[k].metadata, ix.key, ix.value) IN
         IF r.err # Ok THEN Result(r.err, idAccounts)
         ELSE Result(Ok, Put(idAccounts, k, [idAccounts[k] EXCEPT !.metadata = r.metadata]))

\* ix: [owner, agent_mint, new_uri]
set_agent_uri(ix) ==
    LET k == AgentSeeds(ix.agent_mint) IN
    IF k \notin DOMAIN idAccounts THEN Result("AccountNotInitialized", idAccounts)
    ELSE IF ~IsAgentOwner(idAccounts[k], ix.owner) THEN Result("Unauthorized", idAccounts)
    ELSE IF ~(StrLen(ix.new_uri) <= MAX_URI_LENGTH) THEN Result("UriTooLong", idAccounts)
    ELSE Result(Ok, Put(idAccounts, k, [idAccounts[k] EXCEPT !.token_uri = ix.new_uri]))

\* ix: [owner, agent_mint, extension_index]
\* The extension account is created (init) before the ownership constraint is checked.
create_metadata_extension(ix) ==
    LET k == AgentSeeds(ix.agent_mint)
        e == MetadataExtSeeds(ix.agent_mint, ix.extension_index)
    IN
    IF k \notin DOMAIN idAccounts THEN Result("AccountNotInitialized", idAccounts)
    ELSE IF e \in DOMAIN idAccounts THEN Result("AccountAlreadyInUse", idAccounts)
    ELSE IF ~IsAgentOwner(idAccounts[k], ix.owner) THEN Result("Unauthorized", idAccounts)
    ELSE Result(Ok, Put(idAccounts, e,
                        [agent_mint |-> ix.agent_mint,
                         extension_index |-> ix.extension_index,
                         metadata |-> <<>>]))

\* ix: [owner, agent_mint, extension_index, key, value]
set_metadata_extended(ix) ==
    LET k == AgentSeeds(ix.agent_mint)
        e == MetadataExtSeeds(ix.agent_mint, ix.extension_index)
    IN
    IF e \notin DOMAIN idAccounts \/ k \notin DOMAIN idAccounts
    THEN Result("AccountNotInitialized", idAccounts)
    ELSE IF ~IsAgentOwner(idAccounts[k], ix.owner) THEN Result("Unauthorized", idAccounts)
    ELSE IF ~(StrLen(ix.key) <= MAX_KEY_LENGTH) THEN Result("KeyTooLong", idAccounts)
    ELSE IF ~(StrLen(ix.value) <= MAX_VALUE_LENGTH) THEN Result("ValueTooLong", idAccounts)
    ELSE LET r == SetEntry(idAccounts[e].metadata, ix.key, ix.value) IN
         IF r.err # Ok THEN Result(r.err, idAccounts)
         ELSE Result(Ok, Put(idAccounts, e, [idAccounts[e] EXCEPT !.metadata = r.metadata]))

----------------------------------------------------------------------------
(* Identity registry: sync_owner / transfer_agent *)

\* A sync that takes the holder from any token account of the mint.
HoldsAgentNft_unchecked(token_account) == TRUE

\* "Verify token account holds the agent NFT (amount = 1)"
HoldsAgentNft(token_account) == token_account.amount = 1

\* ix: [agent_mint, token_account]          (no signer is required)
sync_owner(ix) ==
    LET k == AgentSeeds(ix.agent_mint) IN
    IF k \notin DOMAIN idAccounts \/ ix.token_account \notin DOMAIN tokenAccounts
    THEN Result("AccountNotInitialized", idAccounts)
    ELSE
    LET agent == idAccounts[k]
        token_account == tokenAccounts[ix.token_account]
    IN
    IF ~(token_account.mint = agent.agent_mint) THEN Result("InvalidTokenAccount", idAccounts)
    ELSE IF ~HoldsAgentNft(token_account) THEN Result("InvalidTokenAccount", idAccounts)
    ELSE Result(Ok, Put(idAccounts, k, [agent EXCEPT !.owner = token_account.owner]))

\* A transfer that leaves the cached owner as it was.
OwnerAfterTransfer_stale(agent, to) == agent.owner

\* "Step 2: Automatic sync_owner": new_owner = to_token_account.owner
OwnerAfterTransfer(agent, to) == to.owner

\* ix: [owner, agent_mint, from_token_account, to_token_account]
\* Returns [err, accounts, tokens].
transfer_agent(ix) ==
    LET Abort(e) == [err |-> e, accounts |-> idAccounts, tokens |-> tokenAccounts]
        k == AgentSeeds(ix.agent_mint)
    IN
    IF \/ k \notin DOMAIN idAccounts
       \/ ix.from_token_account \notin DOMAIN tokenAccounts
       \/ ix.to_token_account \notin DOMAIN tokenAccounts
    THEN Abort("AccountNotInitialized")
    ELSE
    LET agent == idAccounts[k]
        from == tokenAccounts[ix.from_token_account]
        to == tokenAccounts[ix.to_token_account]
    IN
    IF ~(from.mint = agent.agent_mint) THEN Abort("InvalidTokenAccount")
    ELSE IF ~(from.owner = ix.owner) THEN Abort("Unauthorized")
    ELSE IF ~(from.amount = 1) THEN Abort("InvalidTokenAccount")
    ELSE IF ~(to.mint = agent.agent_mint) THEN Abort("InvalidTokenAccount")
    ELSE IF ~(ix.from_token_account # ix.to_token_account) THEN Abort("TransferToSelf")
    ELSE [err |-> Ok,
          \* token::transfer of one unit, then the owner cache follows the destination
          tokens |-> Put(Put(tokenAccounts, ix.from_token_account, [from EXCEPT !.amount = @ - 1]),
                         ix.to_token_account, [to EXCEPT !.amount = @ + 1]),
          accounts |-> Put(idAccounts, k,
                           [agent EXCEPT !.owner = OwnerAfterTransfer(agent, to)])]

----------------------------------------------------------------------------
(* The ownership oracle: the SPL Token program, outside the registries.     *)
(* Anyone may open a token account for an existing mint, and the holder of *)
(* the unit may move it without telling the identity registry.             *)

MintExists(mint) == AgentSeeds(mint) \in DOMAIN idAccounts

\* The address that holds the agent NFT of `mint`.
TokenHolder(mint) ==
    LET held == {t \in DOMAIN tokenAccounts :
                    tokenAccounts[t].mint = mint /\ tokenAccounts[t].amount = 1}
    IN  IF held = {} THEN DefaultPubkey ELSE tokenAccounts[CHOOSE t \in held : TRUE].owner

spl_open_account(address, mint, owner) ==
    IF ~MintExists(mint) \/ address \in DOMAIN tokenAccounts THEN tokenAccounts
    ELSE Put(tokenAccounts, address, [mint |-> mint, owner |-> owner, amount |-> 0])

spl_transfer(from, to) ==
    IF \/ from \notin DOMAIN tokenAccounts \/ to \notin DOMAIN tokenAccounts THEN tokenAccounts
    ELSE IF \/ tokenAccounts[from].mint # tokenAccounts[to].mint
            \/ tokenAccounts[from].amount < 1
            \/ from = to
         THEN tokenAccounts
         ELSE Put(Put(tokenAccounts, from, [tokenAccounts[from] EXCEPT !.amount = @ - 1]),
                  to, [tokenAccounts[to] EXCEPT !.amount = @ + 1])

----------------------------------------------------------------------------
(* Identity registry: the instructions as steps *)

\* What a client sees of an instruction: which one ran and how it ended.
Call(op, ix, err) == [op |-> op, err |-> err]

NoCall == Call("none", <<>>, Ok)

\* The runtime keeps every account as it was when it ran a failed instruction,
\* with the writes of the handler up to the failing check.
Committed_partial(err, written, stored) == written

\* The runtime commits the accounts an instruction wrote when the instruction
\* returns Ok(()), and discards all of its writes when it returns an error.
Committed(err, written, stored) == IF err = Ok THEN written ELSE stored

\* An identity instruction that touches only the registry's own accounts.
IdentityStep(op, ix, r) ==
    /\ last' = Call(op, ix, r.err)
    /\ idAccounts' = Committed(r.err, r.accounts, idAccounts)
    /\ UNCHANGED <<tokenAccounts, registeredEvents, repAccounts, valAccounts>>

RegisterStep(op, ix, r) ==
    /\ last' = Call(op, ix, r.err)
    /\ idAccounts' = Committed(r.err, r.accounts, idAccounts)
    /\ tokenAccounts' = Committed(r.err, r.tokens, tokenAccounts)
    /\ registeredEvents' = Committed(r.err, r.events, registeredEvents)
    /\ UNCHANGED <<repAccounts, valAccounts>>

RegisterIx(owner, authority, agent_mint, token_uri, metadata, now) ==
    [owner |-> owner, authority |-> authority, agent_mint |-> agent_mint,
     collection_mint |-> CollectionMint, token_uri |-> token_uri,
     metadata |-> metadata, now |-> now]

Initialize(authorities) ==
    \E authority \in authorities :
        LET ix == [authority |-> authority, collection_mint |-> CollectionMint]
        IN  IdentityStep("initialize", ix, initialize(ix))

RegisterEmpty(owners, authorities, mints, times) ==
    \E owner \in owners, authority \in authorities, agent_mint \in mints, now \in times :
        LET ix == RegisterIx(owner, authority, agent_mint, EmptyString, <<>>, now)
        IN  RegisterStep("register_empty", ix, register_empty(ix))

Register(owners, authorities, mints, uris, times) ==
    \E owner \in owners, authority \in authorities, agent_mint \in mints,
       token_uri \in uris, now \in times :
        LET ix == RegisterIx(owner, authority, agent_mint, token_uri, <<>>, now)
        IN  RegisterStep("register", ix, register(ix))

RegisterWithMetadata(owners, authorities, mints, uris, lists, times) ==
    \E owner \in owners, authority \in authorities, agent_mint \in mints,
       token_uri \in uris, metadata \in lists, now \in times :
        LET ix == RegisterIx(owner, authority, agent_mint, token_uri, metadata, now)
        IN  RegisterStep("register_with_metadata", ix, register_with_metadata(ix))

SetMetadata(signers, mints, keys, values) ==
    \E owner \in signers, agent_mint \in mints, key \in keys, value \in values :
        LET ix == [owner |-> owner, agent_mint |-> agent_mint, key |-> key, value |-> value]
        IN  IdentityStep("set_metadata", ix, set_metadata(ix))

SetAgentUri(signers, mints, uris) ==
    \E owner \in signers, agent_mint \in mints, new_uri \in uris :
        LET ix == [owner |-> owner, agent_mint |-> agent_mint, new_uri |-> new_uri]
        IN  IdentityStep("set_agent_uri", ix, set_agent_uri(ix))

CreateMetadataExtension(signers, mints, indices) ==
    \E owner \in signers, agent_mint \in mints, extension_index \in indices :
        LET ix == [owner |-> owner, agent_mint |-> agent_mint,
                   extension_index |-> extension_index]
        IN  IdentityStep("create_metadata_extension", ix, create_metadata_extension(ix))

SetMetadataExtended(signers, mints, indices, keys, values) ==
    \E owner \in signers, agent_mint \in mints, extension_index \in indices,
       key \in keys, value \in values :
        LET ix == [owner |-> owner, agent_mint |-> agent_mint,
                   extension_index |-> extension_index, key |-> key, value |-> value]
        IN  IdentityStep("set_metadata_extended", ix, set_metadata_extended(ix))

SyncOwner(mints, tokenAddresses) ==
    \E agent_mint \in mints, token_account \in tokenAddresses :
        LET ix == [agent_mint |-> agent_mint, token_account |-> token_account]
        IN  IdentityStep("sync_owner", ix, sync_owner(ix))

TransferAgent(signers, mints, sources, destinations) ==
    \E owner \in signers, agent_mint \in mints,
       from_token_account \in sources, to_token_account \in destinations :
        LET ix == [owner |-> owner, agent_mint |-> agent_mint,
                   from_token_account |-> from_token_account,
                   to_token_account |-> to_token_account]
            r == transfer_agent(ix)
        IN  /\ last' = Call("transfer_agent", ix, r.err)
            /\ idAccounts' = Committed(r.err, r.accounts, idAccounts)
            /\ tokenAccounts' = Committed(r.err, r.tokens, tokenAccounts)
            /\ UNCHANGED <<registeredEvents, repAccounts, valAccounts>>

\* The oracle's own steps (not instructions of the registry).
SplOpenAccount(tokenAddresses) ==
    \E address \in tokenAddresses :
        /\ address \notin DOMAIN tokenAccounts
        /\ MintExists(address[2])
        /\ tokenAccounts' = spl_open_account(address, address[2], address[3])
        /\ last' = Call("spl_open_account", [address |-> address], Ok)
        /\ UNCHANGED <<idAccounts, registeredEvents, repAccounts, valAccounts>>

SplTransfer(tokenAddresses) ==
    \E from \in tokenAddresses, to \in tokenAddresses :
        /\ spl_transfer(from, to) # tokenAccounts
        /\ tokenAccounts' = spl_transfer(from, to)
        /\ last' = Call("spl_transfer", [from |-> from, to |-> to], Ok)
        /\ UNCHANGED <<idAccounts, registeredEvents, repAccounts, valAccounts>>

----------------------------------------------------------------------------
(* The identity registry on its own *)

EmptyStore == <<>>

UriShort == Str("ipfs://agent", 12)
Uri200 == Str("uri-of-200-bytes", 200)
Uri201 == Str("uri-of-201-bytes", 201)
KeyName == Str("name", 4)
Key32 == Str("key-of-32-bytes", 32)
Key33 == Str("key-of-33-bytes", 33)
Value1 == Str("v1", 2)
Value256 == Str("value-of-256-bytes", 256)
Value257 == Str("value-of-257-bytes", 257)

IdSigners == {"alice", "bob"}
IdUris == {UriShort, Uri201}
IdKeys == {KeyName, Key33}
IdValues == {Value1, Value257}
IdLists == {<<MetadataEntry(KeyName, Value256)>>, <<MetadataEntry(Key33, Value1)>>}
IdExtensions == {0}
IdTimes == {1700000000}
IdTokenAddresses ==
    {AssociatedTokenAccount("mintA", a) : a \in IdSigners}
        \cup {AssociatedTokenAccount("mintB", "bob")}

InitIdentity ==
    /\ idAccounts = EmptyStore
    /\ tokenAccounts = EmptyStore
    /\ registeredEvents = <<>>
    /\ repAccounts = EmptyStore
    /\ valAccounts = EmptyStore
    /\ last = NoCall

NextIdentity ==
    \/ Initialize({"alice"})
    \/ RegisterEmpty({"bob"}, IdSigners, Mints, IdTimes)
    \/ Register({"alice"}, IdSigners, Mints, IdUris, IdTimes)
    \/ RegisterWithMetadata({"alice"}, {"alice"}, Mints, {UriShort}, IdLists, IdTimes)
    \/ SetMetadata(IdSigners, Mints, IdKeys, IdValues)
    \/ SetAgentUri(IdSigners, Mints, IdUris)
    \/ CreateMetadataExtension(IdSigners, {"mintA"}, IdExtensions)
    \/ SetMetadataExtended(IdSigners, {"mintA"}, IdExtensions, {KeyName}, IdValues)
    \/ SyncOwner(Mints, IdTokenAddresses)
    \/ TransferAgent(IdSigners, {"mintA"}, IdTokenAddresses,
                     {AssociatedTokenAccount("mintA", a) : a \in IdSigners})
    \/ SplOpenAccount(IdTokenAddresses)
    \/ SplTransfer(IdTokenAddresses)

SpecIdentity == InitIdentity /\ [][NextIdentity]_vars

----------------------------------------------------------------------------
(* Registration, with three mints *)

RegMints == {"mintA", "mintB", "mintC"}

NextRegistration ==
    \/ Initialize(IdSigners)
    \/ RegisterEmpty({"bob"}, IdSigners, RegMints, IdTimes)
    \/ Register({"alice"}, IdSigners, RegMints, IdUris, IdTimes)
    \/ RegisterWithMetadata({"alice"}, {"alice"}, RegMints, {UriShort}, IdLists, IdTimes)
    \/ SetMetadata(IdSigners, {"mintA"}, {KeyName}, {Value1})
    \/ SetAgentUri(IdSigners, {"mintB"}, {Uri200})
    \/ CreateMetadataExtension({"alice"}, {"mintC"}, IdExtensions)
    \/ SyncOwner({"mintA"}, {AssociatedTokenAccount("mintA", "bob")})
    \/ TransferAgent({"alice"}, {"mintA"}, {AssociatedTokenAccount("mintA", "alice")},
                     {AssociatedTokenAccount("mintA", "bob")})
    \/ SplOpenAccount({AssociatedTokenAccount("mintA", "bob")})

SpecRegistration == InitIdentity /\ [][NextRegistration]_vars

----------------------------------------------------------------------------
(* Reputation registry: state.rs *)

\* One sequence per agent, shared by its clients.
ClientIndexSeeds_shared(agent_id, client) == <<"client_index", agent_id>>

ClientIndexSeeds(agent_id, client) == <<"client_index", agent_id, client>>
FeedbackSeeds(agent_id, client, feedback_index) == <<"feedback", agent_id, client, feedback_index>>
AgentReputationSeeds(agent_id) == <<"agent_reputation", agent_id>>
ResponseIndexSeeds(agent_id, client, feedback_index) ==
    <<"response_index", agent_id, client, feedback_index>>
ResponseSeeds(agent_id, client, feedback_index, response_index) ==
    <<"response", agent_id, client, feedback_index, response_index>>

\* Freshly allocated accounts are zero-filled.
ZeroClientIndex == [agent_id |-> 0, client_address |-> DefaultPubkey, last_index |-> 0]

ZeroAgentReputation ==
    [agent_id |-> 0, total_feedbacks |-> 0, total_score_sum |-> 0, average_score |-> 0,
     last_updated |-> 0]

ZeroResponseIndex ==
    [agent_id |-> 0, client_address |-> DefaultPubkey, feedback_index |-> 0, next_index |-> 0]

----------------------------------------------------------------------------
(* Reputation registry: give_feedback *)

\* A range check that lets every u8 through.
ScoreInRange_unchecked(score) == TRUE

\* require!(score <= 100, ReputationError::InvalidScore)
ScoreInRange(score) == score <= 100

\* "First feedback from this client to this agent"
IsFirstFeedback(client_index) == client_index.last_index = 0 /\ client_index.agent_id = 0

\* An index check that was left out.
FeedbackIndexMatches_unchecked(client_index, feedback_index) == TRUE

\* The two require!(feedback_index == ...) of the index validation.
FeedbackIndexMatches(client_index, feedback_index) ==
    IF IsFirstFeedback(client_index)
    THEN feedback_index = 0
    ELSE feedback_index = client_index.last_index

\* A sequence counter that is never advanced.
NextLastIndex_stuck(client_index) == client_index.last_index

\* "Increment index for next feedback"
NextLastIndex(client_index) == checked_add(client_index.last_index, 1)

\* "First feedback for this agent - initialize"
IsFirstForAgent(metadata) == metadata.agent_id = 0

\* An average that is only set by the first feedback.
AddToStats_staleAverage(metadata, agent_id, score) ==
    IF IsFirstForAgent(metadata)
    THEN [metadata EXCEPT !.agent_id = agent_id, !.total_feedbacks = 1,
                          !.total_score_sum = score, !.average_score = score]
    ELSE [metadata EXCEPT !.total_feedbacks = checked_add(@, 1),
                          !.total_score_sum = checked_add(@, score)]

\* The update of the cached statistics in give_feedback.  A field is None when
\* its checked addition overflowed.
AddToStats(metadata, agent_id, score) ==
    IF IsFirstForAgent(metadata)
    THEN [metadata EXCEPT !.agent_id = agent_id, !.total_feedbacks = 1,
                          !.total_score_sum = score, !.average_score = score]
    ELSE LET total_feedbacks == checked_add(metadata.total_feedbacks, 1)
             total_score_sum == checked_add(metadata.total_score_sum, score)
         IN  [metadata EXCEPT
                !.total_feedbacks = total_feedbacks,
                !.total_score_sum = total_score_sum,
                !.average_score = IF total_feedbacks = None \/ total_score_sum = None
                                  THEN @
                                  ELSE as_u8(total_score_sum \div total_feedbacks)]

\* #[derive(Accounts)] GiveFeedback.  The agent account of the identity registry
\* is looked up from the mint the client passes.
GiveFeedbackAccounts(ix) ==
    IF AgentSeeds(ix.agent_mint) \notin DOMAIN idAccounts
    THEN [err |-> "AccountNotInitialized"]
    ELSE IF FeedbackSeeds(ix.agent_id, ix.client, ix.feedback_index) \in DOMAIN repAccounts
    THEN [err |-> "AccountAlreadyInUse"]
    ELSE [err |-> Ok,
          agent_account |-> idAccounts[AgentSeeds(ix.agent_mint)],
          client_index |-> InitIfNeeded(repAccounts,
                                        ClientIndexSeeds(ix.agent_id, ix.client),
                                        ZeroClientIndex),
          agent_reputation |-> InitIfNeeded(repAccounts,
                                            AgentReputationSeeds(ix.agent_id),
                                            ZeroAgentReputation)]

\* ix: [client, agent_mint, agent_id, score, tag1, tag2, file_uri, file_hash,
\*      feedback_index, now]
give_feedback(ix) ==
    LET ctx == GiveFeedbackAccounts(ix) IN
    IF ctx.err # Ok THEN Result(ctx.err, repAccounts)
    ELSE IF ~ScoreInRange(ix.score) THEN Result("InvalidScore", repAccounts)
    ELSE IF ~(StrLen(ix.file_uri) <= MAX_URI_LENGTH) THEN Result("UriTooLong", repAccounts)
    ELSE IF ~(ctx.agent_account.agent_id = ix.agent_id) THEN Result("AgentNotFound", repAccounts)
    ELSE IF ~FeedbackIndexMatches(ctx.client_index, ix.feedback_index)
    THEN Result("InvalidFeedbackIndex", repAccounts)
    ELSE
    LET bound == IF IsFirstFeedback(ctx.client_index)
                 THEN [ctx.client_index EXCEPT !.agent_id = ix.agent_id,
                                               !.client_address = ix.client]
                 ELSE ctx.client_index
        last_index == NextLastIndex(bound)
        client_index == [bound EXCEPT !.last_index = last_index]
        feedback == [agent_id |-> ix.agent_id,
                     client_address |-> ix.client,
                     feedback_index |-> ix.feedback_index,
                     score |-> ix.score,
                     tag1 |-> ix.tag1,
                     tag2 |-> ix.tag2,
                     file_uri |-> ix.file_uri,
                     file_hash |-> ix.file_hash,
                     is_revoked |-> FALSE,
                     created_at |-> ix.now]
        stats == AddToStats(ctx.agent_reputation, ix.agent_id, ix.score)
        metadata == [stats EXCEPT !.last_updated = ix.now]
        written == Put(Put(repAccounts, ClientIndexSeeds(ix.agent_id, ix.client), client_index),
                       FeedbackSeeds(ix.agent_id, ix.client, ix.feedback_index), feedback)
    IN
    IF last_index = None
    THEN Result("Overflow", Put(repAccounts, ClientIndexSeeds(ix.agent_id, ix.client), bound))
    ELSE IF stats.total_feedbacks = None
    THEN Result("Overflow", written)
    ELSE IF stats.total_score_sum = None
    THEN Result("Overflow", Put(written, AgentReputationSeeds(ix.agent_id),
                                [ctx.agent_reputation EXCEPT
                                   !.total_feedbacks = stats.total_feedbacks]))
    ELSE Result(Ok, Put(written, AgentReputationSeeds(ix.agent_id), metadata))

----------------------------------------------------------------------------
(* Reputation registry: revoke_feedback *)

\* require!(!feedback.is_revoked, ReputationError::AlreadyRevoked), left out.
NotRevoked_unchecked(feedback) == TRUE

\* require!(!feedback.is_revoked, ReputationError::AlreadyRevoked)
NotRevoked(feedback) == ~feedback.is_revoked

\* "Recalculate average (avoid division by zero)"
\* An average that is the sum, not divided by the count.
RecalculateAverage_undivided(total_score_sum, total_feedbacks) == as_u8(total_score_sum)

RecalculateAverage(total_score_sum, total_feedbacks) ==
    IF total_feedbacks = 0 THEN 0 ELSE as_u8(total_score_sum \div total_feedbacks)

\* The update of the cached statistics in revoke_feedback.  A field is None when
\* its checked subtraction underflowed.
SubtractFromStats(metadata, score) ==
    LET total_feedbacks == checked_sub(metadata.total_feedbacks, 1)
        total_score_sum == checked_sub(metadata.total_score_sum, score)
    IN  [metadata EXCEPT
           !.total_feedbacks = total_feedbacks,
           !.total_score_sum = total_score_sum,
           !.average_score = IF total_feedbacks = None \/ total_score_sum = None
                             THEN @
                             ELSE RecalculateAverage(total_score_sum, total_feedbacks)]

\* #[derive(Accounts)] RevokeFeedback.  ix.feedback_account is the address of the
\* account the caller passes; it has to be the address derived from the signer.
RevokeFeedbackAccounts(ix) ==
    IF ix.feedback_account \notin DOMAIN repAccounts
       \/ AgentReputationSeeds(ix.agent_id) \notin DOMAIN repAccounts
    THEN "AccountNotInitialized"
    ELSE IF ix.feedback_account # FeedbackSeeds(ix.agent_id, ix.client, ix.feedback_index)
    THEN "ConstraintSeeds"
    ELSE Ok

\* A revocation that closes the feedback account instead of marking it.
RevokeRecord_closing(ix) == Result(Ok, Remove(repAccounts, ix.feedback_account))

\* The body of revoke_feedback after its two require!s.  A checked subtraction
\* that fails returns with the fields written before it still in the accounts.
RevokeRecord(ix) ==
    LET feedback == repAccounts[ix.feedback_account]
        agent_reputation == repAccounts[AgentReputationSeeds(ix.agent_id)]
        stats == SubtractFromStats(agent_reputation, feedback.score)
        metadata == [stats EXCEPT !.last_updated = ix.now]
        written == Put(repAccounts, ix.feedback_account, [feedback EXCEPT !.is_revoked = TRUE])
    IN
    IF stats.total_feedbacks = None
    THEN Result("Overflow", written)
    ELSE IF stats.total_score_sum = None
    THEN Result("Overflow", Put(written, AgentReputationSeeds(ix.agent_id),
                                [agent_reputation EXCEPT
                                   !.total_feedbacks = stats.total_feedbacks]))
    ELSE Result(Ok, Put(written, AgentReputationSeeds(ix.agent_id), metadata))

\* revoke_feedback without the seeds of the feedback account and without the
\* comparison of the author to the signer.
revoke_feedback_unbound(ix) ==
    IF ix.feedback_account \notin DOMAIN repAccounts
       \/ AgentReputationSeeds(ix.agent_id) \notin DOMAIN repAccounts
    THEN Result("AccountNotInitialized", repAccounts)
    ELSE IF ~NotRevoked(repAccounts[ix.feedback_account])
    THEN Result("AlreadyRevoked", repAccounts)
    ELSE RevokeRecord(ix)

\* ix: [client, agent_id, feedback_index, feedback_account, now]
revoke_feedback(ix) ==
    IF RevokeFeedbackAccounts(ix) # Ok THEN Result(RevokeFeedbackAccounts(ix), repAccounts)
    ELSE IF ~(repAccounts[ix.feedback_account].client_address = ix.client)
    THEN Result("Unauthorized", repAccounts)
    ELSE IF ~NotRevoked(repAccounts[ix.feedback_account])
    THEN Result("AlreadyRevoked", repAccounts)
    ELSE RevokeRecord(ix)

----------------------------------------------------------------------------
(* Reputation registry: append_response *)

\* The seeds of the response account, left unchecked.
ResponseAddressMatches_unchecked(ix, response_index) == TRUE

\* seeds = [b"response", agent_id, client_address, feedback_index,
\*          response_index.next_index] on the response account the caller passes.
ResponseAddressMatches(ix, response_index) ==
    ix.response_account = ResponseSeeds(ix.agent_id, ix.client_address, ix.feedback_index,
                                        response_index.next_index)

\* AppendResponse without the feedback account among its accounts.
AppendResponseAccounts_unreferenced(ix) ==
    LET response_index == InitIfNeeded(repAccounts,
                              ResponseIndexSeeds(ix.agent_id, ix.client_address, ix.feedback_index),
                              ZeroResponseIndex)
    IN
    IF ~ResponseAddressMatches(ix, response_index)
    THEN [err |-> "ConstraintSeeds"]
    ELSE IF ix.response_account \in DOMAIN repAccounts
    THEN [err |-> "AccountAlreadyInUse"]
    ELSE [err |-> Ok,
          response_index |-> response_index,
          response_account |-> ix.response_account]

\* #[derive(Accounts)] AppendResponse.  ix.response_account is the address of the
\* account the caller passes; it has to be the address derived from next_index
\* of the response index account as it is after init_if_needed.
AppendResponseAccounts(ix) ==
    LET response_index == InitIfNeeded(repAccounts,
                              ResponseIndexSeeds(ix.agent_id, ix.client_address, ix.feedback_index),
                              ZeroResponseIndex)
    IN
    IF FeedbackSeeds(ix.agent_id, ix.client_address, ix.feedback_index) \notin DOMAIN repAccounts
    THEN [err |-> "AccountNotInitialized"]
    ELSE IF ~ResponseAddressMatches(ix, response_index)
    THEN [err |-> "ConstraintSeeds"]
    ELSE IF ix.response_account \in DOMAIN repAccounts
    THEN [err |-> "AccountAlreadyInUse"]
    ELSE [err |-> Ok,
          response_index |-> response_index,
          response_account |-> ix.response_account]

\* ix: [responder, agent_id, client_address, feedback_index, response_account,
\*      response_uri, response_hash, now]
append_response(ix) ==
    LET ctx == AppendResponseAccounts(ix) IN
    IF ctx.err # Ok THEN Result(ctx.err, repAccounts)
    ELSE IF ~(StrLen(ix.response_uri) <= MAX_URI_LENGTH)
    THEN Result("ResponseUriTooLong", repAccounts)
    ELSE
    LET first == ctx.response_index.agent_id = 0
        next_index == IF first THEN 1 ELSE checked_add(ctx.response_index.next_index, 1)
        response_index == IF first THEN 0 ELSE ctx.response_index.next_index
        response_index_account ==
            IF first
            THEN [ctx.response_index EXCEPT !.agent_id = ix.agent_id,
                                            !.client_address = ix.client_address,
                                            !.feedback_index = ix.feedback_index,
                                            !.next_index = 1]
            ELSE [ctx.response_index EXCEPT !.next_index = next_index]
        response == [agent_id |-> ix.agent_id,
                     client_address |-> ix.client_address,
                     feedback_index |-> ix.feedback_index,
                     response_index |-> response_index,
                     responder |-> ix.responder,
                     response_uri |-> ix.response_uri,
                     response_hash |-> ix.response_hash,
                     created_at |-> ix.now]
    IN
    IF next_index = None THEN Result("Overflow", repAccounts)
    ELSE Result(Ok, Put(Put(repAccounts,
                            ResponseIndexSeeds(ix.agent_id, ix.client_address, ix.feedback_index),
                            response_index_account),
                        ctx.response_account, response))

----------------------------------------------------------------------------
(* Reputation registry: one action per instruction *)

ReputationStep(op, r) ==
    /\ repAccounts' = Committed(r.err, r.accounts, repAccounts)
    /\ last' = Call(op, <<>>, r.err)
    /\ UNCHANGED <<idAccounts, tokenAccounts, registeredEvents, valAccounts>>

IsFeedback(key) == key[1] = "feedback"
IsResponse(key) == key[1] = "response"
FeedbackKeys == {key \in DOMAIN repAccounts : IsFeedback(key)}
ResponseKeys == {key \in DOMAIN repAccounts : IsResponse(key)}

GiveFeedbackIx(client, agent_mint, agent_id, score, file_uri, feedback_index, now) ==
    [client |-> client, agent_mint |-> agent_mint, agent_id |-> agent_id, score |-> score,
     tag1 |-> "quality", tag2 |-> "speed", file_uri |-> file_uri, file_hash |-> "hashF",
     feedback_index |-> feedback_index, now |-> now]

RevokeFeedbackIx(client, agent_id, feedback_index, author, now) ==
    [client |-> client, agent_id |-> agent_id, feedback_index |-> feedback_index,
     feedback_account |-> FeedbackSeeds(agent_id, author, feedback_index), now |-> now]

\* `observed` is the next_index the caller derived the response account from.
AppendResponseIx(responder, agent_id, client_address, feedback_index, observed, response_uri, now) ==
    [responder |-> responder, agent_id |-> agent_id, client_address |-> client_address,
     feedback_index |-> feedback_index,
     response_account |-> ResponseSeeds(agent_id, client_address, feedback_index, observed),
     response_uri |-> response_uri, response_hash |-> "hashR", now |-> now]

GiveFeedback(clients, mints, agent_ids, scores, uris, indices, times, maxFeedbacks) ==
    \E client \in clients, agent_mint \in mints, agent_id \in agent_ids, score \in scores,
       file_uri \in uris, feedback_index \in indices, now \in times :
        /\ Cardinality(FeedbackKeys) < maxFeedbacks
        /\ ReputationStep("give_feedback",
                          give_feedback(GiveFeedbackIx(client, agent_mint, agent_id, score,
                                                       file_uri, feedback_index, now)))

RevokeFeedback(clients, agent_ids, indices, authors, times) ==
    \E client \in clients, agent_id \in agent_ids, feedback_index \in indices,
       author \in authors, now \in times :
        ReputationStep("revoke_feedback",
                       revoke_feedback(RevokeFeedbackIx(client, agent_id, feedback_index,
                                                        author, now)))

AppendResponse(responders, agent_ids, clients, indices, observations, uris, times, maxResponses) ==
    \E responder \in responders, agent_id \in agent_ids, client_address \in clients,
       feedback_index \in indices, observed \in observations, response_uri \in uris,
       now \in times :
        /\ Cardinality(ResponseKeys) < maxResponses
        /\ ReputationStep("append_response",
                          append_response(AppendResponseIx(responder, agent_id, client_address,
                              feedback_index, observed, response_uri, now)))

----------------------------------------------------------------------------
(* The reputation registry over agents registered in the identity registry *)

\* The identity registry after initialize by alice, register_empty of mintA
\* by alice (agent id 0) and register_empty of mintB by bob (agent id 1).
RegisteredAgent(agent_id, owner, agent_mint) ==
    [agent_id |-> agent_id, owner |-> owner, agent_mint |-> agent_mint,
     token_uri |-> EmptyString, metadata |-> <<>>, created_at |-> 1700000000]

RegisteredIdentity ==
    Put(Put(Put(EmptyStore, ConfigSeeds,
                [authority |-> "alice", next_agent_id |-> 2, total_agents |-> 2,
                 collection_mint |-> CollectionMint]),
            AgentSeeds("mintA"), RegisteredAgent(0, "alice", "mintA")),
        AgentSeeds("mintB"), RegisteredAgent(1, "bob", "mintB"))

RegisteredTokens ==
    Put(Put(EmptyStore, AssociatedTokenAccount("mintA", "alice"),
            [mint |-> "mintA", owner |-> "alice", amount |-> 1]),
        AssociatedTokenAccount("mintB", "bob"),
        [mint |-> "mintB", owner |-> "bob", amount |-> 1])

RegisteredEvents ==
    <<[agent_id |-> 0, token_uri |-> EmptyString, owner |-> "alice", agent_mint |-> "mintA"],
      [agent_id |-> 1, token_uri |-> EmptyString, owner |-> "bob", agent_mint |-> "mintB"]>>

InitRegistered ==
    /\ idAccounts = RegisteredIdentity
    /\ tokenAccounts = RegisteredTokens
    /\ registeredEvents = RegisteredEvents
    /\ repAccounts = EmptyStore
    /\ valAccounts = EmptyStore
    /\ last = NoCall

MaxFeedbacks == 3
MaxResponses == 3
RepClients == {"alice", "bob"}
RepAgentIds == {0, 1}
RepScores == {7, 100, 101}
RepUris == {UriShort, Uri201}
RepIndices == 0 .. MaxFeedbacks
RepTimes == {1700000060}

NextReputation ==
    \/ GiveFeedback(RepClients, Mints, RepAgentIds, RepScores, {UriShort}, RepIndices, RepTimes,
                    MaxFeedbacks)
    \/ RevokeFeedback(RepClients, RepAgentIds, RepIndices, RepClients, RepTimes)

SpecReputation == InitRegistered /\ [][NextReputation]_vars

\* Responses to the feedback of one client.
NextResponses ==
    \/ GiveFeedback({"alice"}, Mints, RepAgentIds, {7}, {UriShort}, {0, 1}, RepTimes, 2)
    \/ RevokeFeedback({"alice"}, RepAgentIds, {0, 1}, {"alice"}, RepTimes)
    \/ AppendResponse({"carol"}, RepAgentIds, {"alice"}, {0, 1}, 0 .. MaxResponses, RepUris,
                      RepTimes, MaxResponses)

SpecResponses == InitRegistered /\ [][NextResponses]_vars

----------------------------------------------------------------------------
(* Validation registry *)

ValidationSeeds(agent_id, validator_address, nonce) ==
    <<"validation", agent_id, validator_address, nonce>>

SystemProgram == "systemProgram"
ZeroHash == "zeroHash"

\* The program that owns the account at an address: agent accounts belong to
\* the identity registry, an unallocated address to the system program.
AccountOwner(address) == IF address \in DOMAIN idAccounts THEN IdentityProgram ELSE SystemProgram

\* ix: [authority, identity_registry]
validation_initialize(ix) ==
    IF ConfigSeeds \in DOMAIN valAccounts
    THEN Result("AccountAlreadyInUse", valAccounts)
    ELSE Result(Ok, Put(valAccounts, ConfigSeeds,
                        [authority |-> ix.authority,
                         identity_registry |-> ix.identity_registry,
                         total_requests |-> 0,
                         total_responses |-> 0]))

\* #[derive(Accounts)] RequestValidation
RequestValidationAccounts(ix) ==
    IF ConfigSeeds \notin DOMAIN valAccounts THEN "AccountNotInitialized"
    ELSE IF ValidationSeeds(ix.agent_id, ix.validator_address, ix.nonce) \in DOMAIN valAccounts
    THEN "AccountAlreadyInUse"
    ELSE IF AccountOwner(ix.agent_account) # valAccounts[ConfigSeeds].identity_registry
    THEN "AgentNotFound"
    ELSE Ok

\* The manual deserialization of the agent account: bytes 8..16 as a u64 and
\* bytes 16..48 as a public key.  Only an AgentAccount has its agent_id and
\* owner there; in a RegistryConfig or a MetadataExtension the same bytes are
\* pieces of a public key followed by other fields, which are the id and the key
\* of no sampled agent or signer.
IsAgentAccount(address) == address[1] = "agent"
ForeignBytesAsU64(address) == 2 ^ 24
ForeignBytesAsPubkey(address) == "foreignBytes"
stored_agent_id(address) ==
    IF IsAgentAccount(address) THEN idAccounts[address].agent_id ELSE ForeignBytesAsU64(address)
stored_owner(address) ==
    IF IsAgentAccount(address) THEN idAccounts[address].owner ELSE ForeignBytesAsPubkey(address)

\* An owner check that was left out.
IsRequesterOwner_unchecked(owner, requester) == TRUE

\* require!(stored_owner == ctx.accounts.requester.key(), UnauthorizedRequester)
IsRequesterOwner(owner, requester) == owner = requester

\* A request that is created without being counted.
request_validation_uncounted(ix) ==
    IF RequestValidationAccounts(ix) # Ok
    THEN Result(RequestValidationAccounts(ix), valAccounts)
    ELSE IF ix.agent_account \notin DOMAIN idAccounts THEN Result("AgentNotFound", valAccounts)
    ELSE IF ~IsRequesterOwner(stored_owner(ix.agent_account), ix.requester)
    THEN Result("UnauthorizedRequester", valAccounts)
    ELSE Result(Ok, Put(valAccounts,
                        ValidationSeeds(ix.agent_id, ix.validator_address, ix.nonce),
                        [agent_id |-> ix.agent_id, validator_address |-> ix.validator_address,
                         nonce |-> ix.nonce, request_hash |-> ix.request_hash,
                         response_hash |-> ZeroHash, response |-> 0, created_at |-> ix.now,
                         responded_at |-> 0]))

\* ix: [requester, agent_account, agent_id, validator_address, nonce, request_uri,
\*      request_hash, now]
request_validation(ix) ==
    IF RequestValidationAccounts(ix) # Ok
    THEN Result(RequestValidationAccounts(ix), valAccounts)
    ELSE IF ~(StrLen(ix.request_uri) <= MAX_URI_LENGTH)
    THEN Result("RequestUriTooLong", valAccounts)
    ELSE IF ix.agent_account \notin DOMAIN idAccounts THEN Result("AgentNotFound", valAccounts)
    ELSE IF ~(stored_agent_id(ix.agent_account) = ix.agent_id)
    THEN Result("AgentNotFound", valAccounts)
    ELSE IF ~IsRequesterOwner(stored_owner(ix.agent_account), ix.requester)
    THEN Result("UnauthorizedRequester", valAccounts)
    ELSE
    LET config == valAccounts[ConfigSeeds]
        total_requests == checked_add(config.total_requests, 1)
        validation_request == [agent_id |-> ix.agent_id,
                               validator_address |-> ix.validator_address,
                               nonce |-> ix.nonce,
                               request_hash |-> ix.request_hash,
                               response_hash |-> ZeroHash,
                               response |-> 0,
                               created_at |-> ix.now,
                               responded_at |-> 0]
    IN
    IF total_requests = None THEN Result("Overflow", valAccounts)
    ELSE Result(Ok, Put(Put(valAccounts, ConfigSeeds,
                            [config EXCEPT !.total_requests = total_requests]),
                        ValidationSeeds(ix.agent_id, ix.validator_address, ix.nonce),
                        validation_request))

\* A validator constraint that was left out.
IsValidator_unchecked(validation_request, signer) == TRUE

\* constraint = validation_request.validator_address == validator.key()
IsValidator(validation_request, signer) == validation_request.validator_address = signer

\* Account validation that accepts one response per request only.
RespondToValidationAccounts_final(ix) ==
    IF ConfigSeeds \notin DOMAIN valAccounts \/ ix.validation_request \notin DOMAIN valAccounts
    THEN "AccountNotInitialized"
    ELSE LET request == valAccounts[ix.validation_request] IN
         IF ix.validation_request
              # ValidationSeeds(request.agent_id, request.validator_address, request.nonce)
         THEN "ConstraintSeeds"
         ELSE IF ~IsValidator(request, ix.validator) THEN "UnauthorizedValidator"
         ELSE IF request.responded_at # 0 THEN "AlreadyResponded"
         ELSE Ok

\* #[derive(Accounts)] RespondToValidation.  ix.validation_request is the address
\* of the request account the validator passes.
RespondToValidationAccounts(ix) ==
    IF ConfigSeeds \notin DOMAIN valAccounts \/ ix.validation_request \notin DOMAIN valAccounts
    THEN "AccountNotInitialized"
    ELSE LET request == valAccounts[ix.validation_request] IN
         IF ix.validation_request
              # ValidationSeeds(request.agent_id, request.validator_address, request.nonce)
         THEN "ConstraintSeeds"
         ELSE IF ~IsValidator(request, ix.validator) THEN "UnauthorizedValidator"
         ELSE Ok

\* A response that is counted every time.
is_first_response_always(validation_request) == TRUE

\* let is_first_response = validation_request.responded_at == 0
is_first_response(validation_request) == validation_request.responded_at = 0

\* A range check that lets every u8 through.
ResponseInRange_unchecked(response) == TRUE

\* require!(response <= 100, ValidationError::InvalidResponse)
ResponseInRange(response) == response <= 100

\* ix: [validator, validation_request, response, response_uri, response_hash, tag, now]
respond_to_validation(ix) ==
    IF RespondToValidationAccounts(ix) # Ok
    THEN Result(RespondToValidationAccounts(ix), valAccounts)
    ELSE IF ~ResponseInRange(ix.response) THEN Result("InvalidResponse", valAccounts)
    ELSE IF ~(StrLen(ix.response_uri) <= MAX_URI_LENGTH)
    THEN Result("ResponseUriTooLong", valAccounts)
    ELSE
    LET config == valAccounts[ConfigSeeds]
        validation_request == valAccounts[ix.validation_request]
        total_responses == IF is_first_response(validation_request)
                           THEN checked_add(config.total_responses, 1)
                           ELSE config.total_responses
    IN
    IF total_responses = None THEN Result("Overflow", valAccounts)
    ELSE Result(Ok, Put(Put(valAccounts, ConfigSeeds,
                            [config EXCEPT !.total_responses = total_responses]),
                        ix.validation_request,
                        [validation_request EXCEPT !.response = ix.response,
                                                   !.response_hash = ix.response_hash,
                                                   !.responded_at = ix.now]))

update_validation(ix) == respond_to_validation(ix)

\* A removal that takes the request out of the count of requests as well.
close_validation_uncounting(ix) ==
    IF ix.validation_request \notin DOMAIN valAccounts
    THEN Result("AccountNotInitialized", valAccounts)
    ELSE Result(Ok, Remove([valAccounts EXCEPT ![ConfigSeeds].total_requests = @ - 1],
                           ix.validation_request))

\* ix: [authority, validation_request, rent_receiver].  The close constraint
\* removes the account; the handler itself checks nothing.
close_validation(ix) ==
    IF ix.validation_request \notin DOMAIN valAccounts
    THEN Result("AccountNotInitialized", valAccounts)
    ELSE LET request == valAccounts[ix.validation_request] IN
         IF ix.validation_request
              # ValidationSeeds(request.agent_id, request.validator_address, request.nonce)
         THEN Result("ConstraintSeeds", valAccounts)
         ELSE Result(Ok, Remove(valAccounts, ix.validation_request))

----------------------------------------------------------------------------
(* Validation registry: one action per instruction *)

ValidationStep(op, r) ==
    /\ valAccounts' = Committed(r.err, r.accounts, valAccounts)
    /\ last' = Call(op, <<>>, r.err)
    /\ UNCHANGED <<idAccounts, tokenAccounts, registeredEvents, repAccounts>>

RequestValidationIx(requester, agent_account, agent_id, validator, nonce, uri, now) ==
    [requester |-> requester, agent_account |-> agent_account, agent_id |-> agent_id,
     validator_address |-> validator, nonce |-> nonce, request_uri |-> uri,
     request_hash |-> "hashQ", now |-> now]

RespondIx(validator, validation_request, response, response_uri, response_hash, now) ==
    [validator |-> validator, validation_request |-> validation_request,
     response |-> response, response_uri |-> response_uri,
     response_hash |-> response_hash, tag |-> "zkml-verified", now |-> now]

ValidationInitialize(authorities, registries) ==
    \E authority \in authorities, identity_registry \in registries :
        ValidationStep("initialize",
                       validation_initialize([authority |-> authority,
                                              identity_registry |-> identity_registry]))

RequestValidation(requesters, agents, agent_ids, validators, nonces, uris, times, max) ==
    \E requester \in requesters, agent_account \in agents, agent_id \in agent_ids,
       validator_address \in validators, nonce \in nonces, request_uri \in uris,
       now \in times :
        /\ ConfigSeeds \in DOMAIN valAccounts => valAccounts[ConfigSeeds].total_requests < max
        /\ ValidationStep("request_validation",
                          request_validation(RequestValidationIx(requester, agent_account,
                              agent_id, validator_address, nonce, request_uri, now)))

RespondToValidation(validators, requests, responses, uris, hashes, times) ==
    \E validator \in validators, validation_request \in requests, response \in responses,
       response_uri \in uris, response_hash \in hashes, now \in times :
        ValidationStep("respond_to_validation",
                       respond_to_validation(RespondIx(validator, validation_request, response,
                                                       response_uri, response_hash, now)))

UpdateValidation(validators, requests, responses, uris, hashes, times) ==
    \E validator \in validators, validation_request \in requests, response \in responses,
       response_uri \in uris, response_hash \in hashes, now \in times :
        ValidationStep("update_validation",
                       update_validation(RespondIx(validator, validation_request, response,
                                                   response_uri, response_hash, now)))

CloseValidation(authorities, requests) ==
    \E authority \in authorities, validation_request \in requests :
        ValidationStep("close_validation",
                       close_validation([authority |-> authority,
                                         validation_request |-> validation_request,
                                         rent_receiver |-> authority]))

----------------------------------------------------------------------------
(* The validation registry over agents registered in the identity registry *)

MaxRequests == 3
ValRequesters == {"alice", "bob"}
ValValidators == {"bob", "carol"}
ValAgentAccounts == {AgentSeeds(m) : m \in Mints}
ValAgentIds == {0, 1}
ValNonces == {0}
ValResponses == {0, 80, 101}
ValHashes == {"hashR1", "hashR2"}
ValRequests == {ValidationSeeds(a, v, n) : a \in ValAgentIds, v \in ValValidators, n \in ValNonces}

NextValidation ==
    \/ ValidationInitialize({"alice"}, {IdentityProgram})
    \/ RequestValidation(ValRequesters, ValAgentAccounts, ValAgentIds, ValValidators, ValNonces,
                         RepUris, RepTimes, MaxRequests)
    \/ RespondToValidation(ValValidators, ValRequests, ValResponses, {UriShort}, ValHashes,
                           RepTimes)
    \/ UpdateValidation(ValValidators, ValRequests, ValResponses, {UriShort}, ValHashes,
                        RepTimes)
    \/ CloseValidation({"carol"}, ValRequests)

SpecValidation == InitRegistered /\ [][NextValidation]_vars

----------------------------------------------------------------------------
(* Scores and responses at the ends of their range, in both registries *)

BoundaryFeedbacks == 2
BoundaryRequests == 2
BoundaryValues == {0, 100, 101, 255}
BoundaryRequestKeys == {ValidationSeeds(a, "carol", 0) : a \in ValAgentIds}

NextBoundary ==
    \/ GiveFeedback({"alice"}, Mints, RepAgentIds, BoundaryValues, {UriShort},
                    0 .. BoundaryFeedbacks, RepTimes, BoundaryFeedbacks)
    \/ ValidationInitialize({"alice"}, {IdentityProgram})
    \/ RequestValidation(ValRequesters, ValAgentAccounts, ValAgentIds, {"carol"}, {0},
                         {UriShort}, RepTimes, BoundaryRequests)
    \/ RespondToValidation({"carol"}, BoundaryRequestKeys, BoundaryValues, {UriShort},
                           {"hashR1"}, RepTimes)
    \/ UpdateValidation({"carol"}, BoundaryRequestKeys, BoundaryValues, {UriShort},
                        {"hashR2"}, RepTimes)

SpecBoundary == InitRegistered /\ [][NextBoundary]_vars

----------------------------------------------------------------------------
(* Metadata lists filled up to their limit *)

\* Keys are named in the order in which they first appear in a list.
KeyNames == <<"k01", "k02", "k03", "k04", "k05", "k06", "k07", "k08", "k09", "k10", "k11">>
MetaKey(i) == Str(KeyNames[i], 3)
MetaKeys == {MetaKey(i) : i \in 1 .. Len(KeyNames)}
MetaValues == {Value1, Value256}
MetaList(n) == [i \in 1 .. n |-> MetadataEntry(MetaKey(i), Value1)]

BaseList(agent_mint) ==
    IF AgentSeeds(agent_mint) \in DOMAIN idAccounts
    THEN idAccounts[AgentSeeds(agent_mint)].metadata ELSE <<>>

ExtensionList(agent_mint, extension_index) ==
    IF MetadataExtSeeds(agent_mint, extension_index) \in DOMAIN idAccounts
    THEN idAccounts[MetadataExtSeeds(agent_mint, extension_index)].metadata ELSE <<>>

\* The next key that is not yet in a list.
NextKey(list) == MetaKey(Len(list) + 1)

NextMetadata ==
    \/ RegisterWithMetadata({"carol"}, {"alice"}, {"mintC"}, {EmptyString},
                            {MetaList(MAX_METADATA_ENTRIES), MetaList(MAX_METADATA_ENTRIES + 1)},
                            IdTimes)
    \/ SetMetadata(IdSigners, {"mintA"}, {NextKey(BaseList("mintA"))}, {Value1})
    \/ SetMetadata(IdSigners, {"mintA"}, {MetaKey(1)}, MetaValues)
    \/ CreateMetadataExtension(IdSigners, {"mintA"}, IdExtensions)
    \/ SetMetadataExtended(IdSigners, {"mintA"}, IdExtensions,
                           {NextKey(ExtensionList("mintA", 0))}, {Value1})
    \/ SetMetadataExtended(IdSigners, {"mintA"}, IdExtensions, {MetaKey(1)}, MetaValues)

SpecMetadata == InitRegistered /\ [][NextMetadata]_vars

----------------------------------------------------------------------------
(* Claims about the validation registry *)

ValidResponses == {r \in ValResponses : r <= 100}

\* What a successful response does to the request and to the counter.
RespondsAsFirstOrLater(ix, r) ==
    LET before == valAccounts[ix.validation_request]
        after == r.accounts[ix.validation_request]
        counted == r.accounts[ConfigSeeds].total_responses
                     - valAccounts[ConfigSeeds].total_responses
    IN  /\ after.response = ix.response
        /\ after.response_hash = ix.response_hash
        /\ IF before.responded_at = 0
           THEN after.responded_at > 0 /\ counted = 1
           ELSE counted = 0

\* C5: a successful respond_to_validation or update_validation on a request
\* that has no response yet (responded_at = 0, response_hash still zero) sets
\* responded_at to a positive timestamp and adds exactly 1 to total_responses;
\* on a request that has a response it overwrites response and response_hash
\* and leaves total_responses as it was.
C5_FirstResponseCountedOnce ==
    /\ \A key \in DOMAIN valAccounts \ {ConfigSeeds} :
         (valAccounts[key].responded_at = 0) <=> (valAccounts[key].response_hash = ZeroHash)
    /\ \A validator \in ValValidators, key \in ValRequests, response \in ValidResponses,
          response_hash \in ValHashes :
         LET ix == RespondIx(validator, key, response, UriShort, response_hash, 1700000060)
         IN  /\ respond_to_validation(ix).err = Ok
                  => RespondsAsFirstOrLater(ix, respond_to_validation(ix))
             /\ update_validation(ix).err = Ok
                  => RespondsAsFirstOrLater(ix, update_validation(ix))
             /\ (key \in DOMAIN valAccounts /\ valAccounts[key].validator_address = validator)
                  => respond_to_validation(ix).err = Ok /\ update_validation(ix).err = Ok

C5_Witness ==
    /\ last = Call("update_validation", <<>>, Ok)
    /\ ConfigSeeds \in DOMAIN valAccounts
    /\ valAccounts[ConfigSeeds].total_requests = 2
    /\ valAccounts[ConfigSeeds].total_responses = 1
    /\ ValidationSeeds(0, "carol", 0) \in DOMAIN valAccounts
    /\ valAccounts[ValidationSeeds(0, "carol", 0)].response = 80
    /\ valAccounts[ValidationSeeds(0, "carol", 0)].response_hash = "hashR2"
    /\ ValidationSeeds(1, "carol", 0) \in DOMAIN valAccounts
    /\ valAccounts[ValidationSeeds(1, "carol", 0)].responded_at = 0

\* C11: respond_to_validation and update_validation signed by anyone other
\* than the request's validator_address fail with UnauthorizedValidator and
\* change neither the request nor the config.
C11_OnlyValidatorResponds ==
    \A signer \in Addresses, key \in ValRequests, response \in ValResponses,
       response_uri \in RepUris, response_hash \in ValHashes :
        LET ix == RespondIx(signer, key, response, response_uri, response_hash, 1700000060)
        IN  (key \in DOMAIN valAccounts /\ valAccounts[key].validator_address # signer)
            => /\ respond_to_validation(ix).err = "UnauthorizedValidator"
               /\ respond_to_validation(ix).accounts = valAccounts
               /\ update_validation(ix).err = "UnauthorizedValidator"
               /\ update_validation(ix).accounts = valAccounts

C11_Witness ==
    /\ last = Call("respond_to_validation", <<>>, "UnauthorizedValidator")
    /\ ValidationSeeds(0, "carol", 0) \in DOMAIN valAccounts
    /\ ValidationSeeds(0, "bob", 0) \notin DOMAIN valAccounts
    /\ valAccounts[ValidationSeeds(0, "carol", 0)].responded_at # 0

\* Accounts a requester may pass as the agent account: agent accounts, the
\* identity registry's config account and an address nothing is allocated at.
SampleAgentAccounts == ValAgentAccounts \cup {ConfigSeeds, AgentSeeds("mintC")}

\* The requester is the owner stored in the agent's record and the stored id
\* is the argument.
OwnerRequests(ix) ==
    /\ ix.agent_account \in DOMAIN idAccounts
    /\ IsAgentAccount(ix.agent_account)
    /\ idAccounts[ix.agent_account].agent_id = ix.agent_id
    /\ idAccounts[ix.agent_account].owner = ix.requester

RequestSamples ==
    {RequestValidationIx(requester, agent_account, agent_id, validator, nonce, uri, 1700000060) :
        requester \in Addresses, agent_account \in SampleAgentAccounts,
        agent_id \in ValAgentIds, validator \in ValValidators, nonce \in ValNonces,
        uri \in RepUris}

\* C12 as stated: in an initialized registry a request for a free request
\* account by anyone but the stored owner, or with another agent id, fails with
\* UnauthorizedRequester or AgentNotFound.
C12_FailsWithOwnerOrAgentError ==
    \A ix \in RequestSamples :
        (/\ ~OwnerRequests(ix)
         /\ ConfigSeeds \in DOMAIN valAccounts
         /\ ValidationSeeds(ix.agent_id, ix.validator_address, ix.nonce)
              \notin DOMAIN valAccounts)
        => request_validation(ix).err \in {"UnauthorizedRequester", "AgentNotFound"}

\* C12: request_validation succeeds only for the owner stored in the agent's
\* record with the stored agent id; every other call fails and changes nothing,
\* with AgentNotFound or UnauthorizedRequester once the config exists, the
\* request account is free and the URI is short enough.  A successful call
\* creates the request at (agent_id, validator, nonce) with response 0, a zero
\* response_hash and responded_at 0, and adds exactly 1 to total_requests.
C12_OnlyOwnerRequests ==
    \A ix \in RequestSamples :
        LET r == request_validation(ix)
            key == ValidationSeeds(ix.agent_id, ix.validator_address, ix.nonce)
        IN  /\ ~OwnerRequests(ix) =>
                /\ r.err # Ok
                /\ r.accounts = valAccounts
                /\ (/\ ConfigSeeds \in DOMAIN valAccounts
                    /\ key \notin DOMAIN valAccounts
                    /\ StrLen(ix.request_uri) <= 200)
                   => r.err = IF /\ ix.agent_account \in DOMAIN idAccounts
                                 /\ IsAgentAccount(ix.agent_account)
                                 /\ idAccounts[ix.agent_account].agent_id = ix.agent_id
                              THEN "UnauthorizedRequester"
                              ELSE "AgentNotFound"
            /\ r.err = Ok =>
                /\ OwnerRequests(ix)
                /\ key \notin DOMAIN valAccounts
                /\ r.accounts[key].response = 0
                /\ r.accounts[key].response_hash = ZeroHash
                /\ r.accounts[key].responded_at = 0
                /\ r.accounts[key].agent_id = ix.agent_id
                /\ r.accounts[key].validator_address = ix.validator_address
                /\ r.accounts[key].nonce = ix.nonce
                /\ r.accounts[ConfigSeeds].total_requests
                     = valAccounts[ConfigSeeds].total_requests + 1
                /\ r.accounts[ConfigSeeds].total_responses
                     = valAccounts[ConfigSeeds].total_responses
                /\ DOMAIN r.accounts = DOMAIN valAccounts \cup {key}
                /\ \A other \in DOMAIN valAccounts \ {ConfigSeeds} :
                     r.accounts[other] = valAccounts[other]
            /\ (/\ OwnerRequests(ix)
                /\ ConfigSeeds \in DOMAIN valAccounts
                /\ key \notin DOMAIN valAccounts
                /\ StrLen(ix.request_uri) <= 200)
               => r.err = Ok

C12_Witness ==
    /\ last = Call("request_validation", <<>>, "UnauthorizedRequester")
    /\ ValidationSeeds(0, "carol", 0) \in DOMAIN valAccounts
    /\ valAccounts[ValidationSeeds(0, "carol", 0)].responded_at = 0
    /\ valAccounts[ConfigSeeds].total_requests = 1

\* The owner stored in the identity registry for the agent of a request.
AgentOwnerOf(agent_id) ==
    {idAccounts[a].owner : a \in {k \in DOMAIN idAccounts :
                                      IsAgentAccount(k) /\ idAccounts[k].agent_id = agent_id}}

\* C13: close_validation signed by an address that is neither the agent's owner
\* nor the authority of the validation config fails and leaves the request in
\* place.
C13_CloseIsGated ==
    \A authority \in Addresses, key \in ValRequests :
        LET r == close_validation([authority |-> authority, validation_request |-> key,
                                   rent_receiver |-> authority])
        IN  (/\ key \in DOMAIN valAccounts
             /\ authority \notin AgentOwnerOf(valAccounts[key].agent_id)
             /\ authority # valAccounts[ConfigSeeds].authority)
            => r.err # Ok /\ r.accounts = valAccounts

----------------------------------------------------------------------------
(* Claims about the identity registry *)

AgentMints == {m \in RegMints : AgentSeeds(m) \in DOMAIN idAccounts}
Agent(m) == idAccounts[AgentSeeds(m)]

\* C4: the k-th successful registration (k = 0, 1, 2, ...) is given agent_id k:
\* the Registered events carry the ids 0, 1, 2, ... in call order, the agent
\* account created by the k-th registration stores id k, and no two agents
\* share an id.
C4_SequentialAgentIds ==
    /\ \A i \in 1..Len(registeredEvents) :
          /\ registeredEvents[i].agent_id = i - 1
          /\ registeredEvents[i].agent_mint \in AgentMints
          /\ Agent(registeredEvents[i].agent_mint).agent_id = i - 1
    /\ \A m1 \in AgentMints, m2 \in AgentMints :
          m1 # m2 => Agent(m1).agent_id # Agent(m2).agent_id
    /\ Cardinality(AgentMints) = Len(registeredEvents)

\* Three registrations of the three kinds went through, in an order that is not
\* the order of the mints; the third one has just been given id 2.
C4_Witness ==
    /\ Len(registeredEvents) = 3
    /\ registeredEvents[1].agent_mint = "mintC"
    /\ registeredEvents[3].agent_mint = "mintA"
    /\ Agent("mintA").agent_id = 2
    /\ Agent("mintB").metadata # <<>>
    /\ last = Call("register_empty", <<>>, Ok)

\* The calls the ownership claims range over.
GateSigners == Addresses
GateKeys == {KeyName, Key32, Key33}
GateValues == {Value1, Value256, Value257}
GateUris == {EmptyString, UriShort, Uri200, Uri201}
GateExtensions == {0, 1}

SetMetadataIx(s, m, k, v) == [owner |-> s, agent_mint |-> m, key |-> k, value |-> v]
SetAgentUriIx(s, m, u) == [owner |-> s, agent_mint |-> m, new_uri |-> u]
ExtensionIx(s, m, i) == [owner |-> s, agent_mint |-> m, extension_index |-> i]
SetMetadataExtendedIx(s, m, i, k, v) ==
    [owner |-> s, agent_mint |-> m, extension_index |-> i, key |-> k, value |-> v]

Rejected(r, err) == r.err = err /\ r.accounts = idAccounts

----------------------------------------------------------------------------
(* Claims about the reputation registry *)

Feedbacks(agent_id) == {key \in FeedbackKeys : key[2] = agent_id}
FeedbacksOf(agent_id, client) == {key \in Feedbacks(agent_id) : key[3] = client}
NonRevoked(agent_id) == {key \in Feedbacks(agent_id) : ~repAccounts[key].is_revoked}
HasAggregate(agent_id) == AgentReputationSeeds(agent_id) \in DOMAIN repAccounts
Aggregate(agent_id) == repAccounts[AgentReputationSeeds(agent_id)]

RECURSIVE SumScores(_)
SumScores(keys) ==
    IF keys = {} THEN 0
    ELSE LET key == CHOOSE k \in keys : TRUE
         IN  repAccounts[key].score + SumScores(keys \ {key})

\* The next index of a client for an agent: 0 if there is no ClientIndexAccount.
NextIndex(agent_id, client) ==
    IF ClientIndexSeeds(agent_id, client) \in DOMAIN repAccounts
    THEN repAccounts[ClientIndexSeeds(agent_id, client)].last_index
    ELSE 0

\* C1: for every agent id with an aggregate, id 0 included, total_score_sum is
\* the sum of the scores of that agent's feedback records that are not revoked.
C1_SumOfNonRevoked ==
    \A agent_id \in RepAgentIds :
        HasAggregate(agent_id) =>
            Aggregate(agent_id).total_score_sum = SumScores(NonRevoked(agent_id))

\* C7: for every agent id with an aggregate, id 0 included, total_feedbacks is
\* the number of that agent's feedback records that are not revoked.
C7_CountOfNonRevoked ==
    \A agent_id \in RepAgentIds :
        HasAggregate(agent_id) =>
            Aggregate(agent_id).total_feedbacks = Cardinality(NonRevoked(agent_id))

\* C2: for every (agent, client) with a ClientIndexAccount, last_index is the
\* number of feedback records created for the pair, and their feedback_index
\* values are exactly 0 .. last_index-1.
C2_ContiguousIndices ==
    \A agent_id \in RepAgentIds, client \in RepClients :
        ClientIndexSeeds(agent_id, client) \in DOMAIN repAccounts =>
            /\ Cardinality(FeedbacksOf(agent_id, client)) = NextIndex(agent_id, client)
            /\ {repAccounts[key].feedback_index : key \in FeedbacksOf(agent_id, client)}
                 = 0 .. (NextIndex(agent_id, client) - 1)
            /\ \A key \in FeedbacksOf(agent_id, client) :
                 repAccounts[key].feedback_index = key[4]

C2_Witness ==
    /\ last = Call("revoke_feedback", <<>>, Ok)
    /\ NextIndex(0, "bob") = 2
    /\ NextIndex(1, "alice") = 1
    /\ repAccounts[FeedbackSeeds(0, "bob", 0)].is_revoked

SampleScores == {7, 101}
SampleIndices == 0 .. (MaxFeedbacks + 1)

\* Inputs that pass every check of give_feedback other than the index check.
OtherwiseValid(ix) ==
    /\ ix.score <= 100
    /\ StrLen(ix.file_uri) <= 200
    /\ AgentSeeds(ix.agent_mint) \in DOMAIN idAccounts
    /\ idAccounts[AgentSeeds(ix.agent_mint)].agent_id = ix.agent_id

\* C3: with n the client's next index for the agent, give_feedback is rejected
\* for every index other than n (a smaller one hits the existing record, a
\* larger one fails the index check) and changes nothing; with index n and
\* otherwise valid inputs it succeeds and last_index becomes n + 1.
C3_OnlyNextIndexAccepted ==
    \A client \in RepClients, agent_mint \in Mints, agent_id \in RepAgentIds,
       score \in SampleScores, file_uri \in RepUris, feedback_index \in SampleIndices :
        LET ix == GiveFeedbackIx(client, agent_mint, agent_id, score, file_uri,
                                 feedback_index, 1700000060)
            n == NextIndex(agent_id, client)
            r == give_feedback(ix)
        IN  /\ feedback_index # n => r.err # Ok /\ r.accounts = repAccounts
            /\ feedback_index < n => r.err = "AccountAlreadyInUse"
            /\ feedback_index > n /\ OtherwiseValid(ix) => r.err = "InvalidFeedbackIndex"
            /\ feedback_index = n /\ OtherwiseValid(ix) =>
                 /\ r.err = Ok
                 /\ r.accounts[ClientIndexSeeds(agent_id, client)].last_index = n + 1

C3_Witness ==
    /\ last = Call("give_feedback", <<>>, "InvalidFeedbackIndex")
    /\ NextIndex(1, "alice") = 2
    /\ NextIndex(0, "alice") = 0

\* C8: every aggregate has average_score = floor(total_score_sum / total_feedbacks)
\* when total_feedbacks > 0 and average_score = 0 when total_feedbacks = 0.
C8_AverageIsFloor ==
    \A agent_id \in RepAgentIds :
        HasAggregate(agent_id) =>
            LET metadata == Aggregate(agent_id)
            IN  IF metadata.total_feedbacks > 0
                THEN metadata.average_score
                       = metadata.total_score_sum \div metadata.total_feedbacks
                ELSE metadata.average_score = 0

C8_Witness ==
    /\ HasAggregate(0) /\ HasAggregate(1)
    /\ Aggregate(1).total_feedbacks = 2
    /\ Aggregate(1).total_score_sum = 107
    /\ Aggregate(1).average_score = 53
    /\ Aggregate(0).total_feedbacks = 0
    /\ last = Call("give_feedback", <<>>, Ok)

\* C6: revoke_feedback by the author of a record that is already revoked fails
\* with AlreadyRevoked and leaves the record and the aggregate as they were.
C6_SecondRevokeRejected ==
    \A client \in RepClients, agent_id \in RepAgentIds, feedback_index \in SampleIndices :
        LET ix == RevokeFeedbackIx(client, agent_id, feedback_index, client, 1700000060)
            r == revoke_feedback(ix)
        IN  (/\ ix.feedback_account \in DOMAIN repAccounts
             /\ repAccounts[ix.feedback_account].is_revoked)
            => /\ r.err = "AlreadyRevoked"
               /\ r.accounts = repAccounts

C6_Witness ==
    /\ last = Call("revoke_feedback", <<>>, "AlreadyRevoked")
    /\ \E key \in Feedbacks(1) :
         /\ repAccounts[key].is_revoked
         /\ Aggregate(1).total_feedbacks = 1

----------------------------------------------------------------------------
(* Claims about both registries *)

\* Every value of a u8 argument.
U8 == 0 .. (2 ^ 8 - 1)

\* C14: with otherwise valid inputs, give_feedback accepts a score v exactly
\* when v <= 100 and fails with InvalidScore otherwise; respond_to_validation
\* and update_validation accept a response v exactly when v <= 100 and fail with
\* InvalidResponse otherwise; a rejected call changes nothing.
C14_RangeZeroToHundred ==
    /\ \A v \in U8, client \in RepClients, agent_mint \in Mints :
         LET agent_id == idAccounts[AgentSeeds(agent_mint)].agent_id
             ix == GiveFeedbackIx(client, agent_mint, agent_id, v, UriShort,
                                  NextIndex(agent_id, client), 1700000060)
             r == give_feedback(ix)
         IN  IF v <= 100 THEN r.err = Ok
             ELSE r.err = "InvalidScore" /\ r.accounts = repAccounts
    /\ \A v \in U8, key \in BoundaryRequestKeys :
         key \in DOMAIN valAccounts =>
            LET ix == RespondIx(valAccounts[key].validator_address, key, v, UriShort,
                                "hashR1", 1700000060)
                r == respond_to_validation(ix)
                u == update_validation(ix)
            IN  IF v <= 100 THEN r.err = Ok /\ u.err = Ok
                ELSE /\ r.err = "InvalidResponse" /\ r.accounts = valAccounts
                     /\ u.err = "InvalidResponse" /\ u.accounts = valAccounts

C14_Witness ==
    /\ last = Call("update_validation", <<>>, "InvalidResponse")
    /\ \E key \in BoundaryRequestKeys :
         key \in DOMAIN valAccounts /\ valAccounts[key].response = 100
    /\ \E key \in FeedbackKeys : repAccounts[key].score = 100
    /\ \E key \in FeedbackKeys : repAccounts[key].score = 0

\* The agents and the extensions that exist, with the owner of each list.
AllMints == RegMints
ListHolders ==
    {AgentSeeds(m) : m \in AllMints} \cup {MetadataExtSeeds(m, i) : m \in AllMints, i \in IdExtensions}
HolderMint(holder) == holder[2]
IsExtension(holder) == holder[1] = "metadata_ext"

\* set_metadata or set_metadata_extended by the owner on the list of a holder.
SetOn(holder, key, value) ==
    LET owner == idAccounts[AgentSeeds(HolderMint(holder))].owner IN
    IF IsExtension(holder)
    THEN set_metadata_extended([owner |-> owner, agent_mint |-> HolderMint(holder),
                                extension_index |-> holder[3], key |-> key, value |-> value])
    ELSE set_metadata([owner |-> owner, agent_mint |-> HolderMint(holder),
                       key |-> key, value |-> value])

HasKey(list, key) == \E i \in 1 .. Len(list) : list[i].key = key

\* C15: no list holds more than 10 entries; on a list of 10 entries the owner's
\* set_metadata / set_metadata_extended with a key that is not in it fails with
\* MetadataLimitReached and changes nothing; with a key that is in a list (of
\* any length) it succeeds, replaces the value of that key only and keeps the
\* number of entries.
C15_TenEntriesPerList ==
    \A holder \in ListHolders :
        holder \in DOMAIN idAccounts =>
            LET list == idAccounts[holder].metadata IN
            /\ Len(list) <= 10
            /\ \A key \in MetaKeys, value \in MetaValues :
                 LET r == SetOn(holder, key, value) IN
                 /\ (Len(list) = 10 /\ ~HasKey(list, key))
                      => r.err = "MetadataLimitReached" /\ r.accounts = idAccounts
                 /\ HasKey(list, key)
                      => /\ r.err = Ok
                         /\ Len(r.accounts[holder].metadata) = Len(list)
                         /\ \A i \in 1 .. Len(list) :
                              /\ r.accounts[holder].metadata[i].key = list[i].key
                              /\ r.accounts[holder].metadata[i].value
                                   = IF list[i].key = key THEN value ELSE list[i].value
                         /\ \A other \in DOMAIN idAccounts \ {holder} :
                              r.accounts[other] = idAccounts[other]

C15_Witness ==
    /\ last = Call("set_metadata_extended", <<>>, "MetadataLimitReached")
    /\ Len(BaseList("mintA")) = 10
    /\ Len(ExtensionList("mintA", 0)) = 10
    /\ BaseList("mintA")[1].value = Value256
    /\ Len(BaseList("mintC")) = 10

ExistingRequests == DOMAIN valAccounts \ {ConfigSeeds}

----------------------------------------------------------------------------
(* Claims about failed instructions *)

\* The revocations of the sample clients that fail on a checked subtraction,
\* after is_revoked has been set in the feedback account.
FailsAfterWriting ==
    {ix \in {RevokeFeedbackIx(client, agent_id, feedback_index, client, 1700000060) :
                client \in RepClients, agent_id \in RepAgentIds, feedback_index \in RepIndices} :
        /\ revoke_feedback(ix).err = "Overflow"
        /\ revoke_feedback(ix).accounts # repAccounts
        /\ revoke_feedback(ix).accounts[ix.feedback_account].is_revoked}

----------------------------------------------------------------------------
(* The three registries with their counters one step below the maximum *)

\* The accounts that the instructions below touch, in registries that have been
\* in use until their counters are next to u64::MAX.  Agent 1 has received
\* feedback from alice up to index U64_MAX - 2, the last of them with responses
\* up to index U64_MAX - 2.
OverflowFeedbacks == 5
LastFeedback == U64_MAX - 2
OverflowIndices == {0, 1, U64_MAX - 1, U64_MAX}

NearMaxIdentity(next_agent_id) ==
    Put(RegisteredIdentity, ConfigSeeds,
        [RegisteredIdentity[ConfigSeeds] EXCEPT !.next_agent_id = next_agent_id,
                                                !.total_agents = next_agent_id])

\* Many feedbacks of score 0 (total_feedbacks next to the maximum), or enough
\* feedbacks of score 100 to bring total_score_sum next to the maximum.
NearMaxAggregates ==
    {[agent_id |-> 1, total_feedbacks |-> U64_MAX - 1, total_score_sum |-> 1000,
      average_score |-> 0, last_updated |-> 1700000000],
     [agent_id |-> 1, total_feedbacks |-> 2 ^ 25, total_score_sum |-> U64_MAX - 150,
      average_score |-> (U64_MAX - 150) \div 2 ^ 25, last_updated |-> 1700000000]}

NearMaxReputation(agent_reputation) ==
    Put(Put(Put(Put(EmptyStore, AgentReputationSeeds(1), agent_reputation),
                ClientIndexSeeds(1, "alice"),
                [agent_id |-> 1, client_address |-> "alice", last_index |-> U64_MAX - 1]),
            FeedbackSeeds(1, "alice", LastFeedback),
            [agent_id |-> 1, client_address |-> "alice", feedback_index |-> LastFeedback,
             score |-> 100, tag1 |-> "quality", tag2 |-> "speed", file_uri |-> UriShort,
             file_hash |-> "hashF", is_revoked |-> FALSE, created_at |-> 1700000000]),
        ResponseIndexSeeds(1, "alice", LastFeedback),
        [agent_id |-> 1, client_address |-> "alice", feedback_index |-> LastFeedback,
         next_index |-> U64_MAX - 1])

NearMaxValidation ==
    Put(EmptyStore, ConfigSeeds,
        [authority |-> "alice", identity_registry |-> IdentityProgram,
         total_requests |-> U64_MAX - 1, total_responses |-> 0])

InitOverflow ==
    /\ \E next_agent_id \in {U64_MAX - 1, U64_MAX} : idAccounts = NearMaxIdentity(next_agent_id)
    /\ tokenAccounts = RegisteredTokens
    /\ registeredEvents = RegisteredEvents
    /\ \E agent_reputation \in NearMaxAggregates :
          repAccounts = NearMaxReputation(agent_reputation)
    /\ valAccounts = NearMaxValidation
    /\ last = NoCall

\* request_validation by the owner of the agent, to the validator carol.
RequestByOwner(agent_mints) ==
    \E agent_mint \in agent_mints :
        ValidationStep("request_validation",
                       request_validation(RequestValidationIx(
                           idAccounts[AgentSeeds(agent_mint)].owner, AgentSeeds(agent_mint),
                           idAccounts[AgentSeeds(agent_mint)].agent_id, "carol", 0, UriShort,
                           1700000060)))

\* Agent 1 (mintB) is the agent whose counters are next to the maximum; agent 0
\* (mintA) receives one feedback of each client and has them revoked.
NextOverflow ==
    \/ Register({"carol"}, {"alice"}, {"mintC"}, {UriShort}, IdTimes)
    \/ GiveFeedback(RepClients, {"mintB"}, {1}, {100}, {UriShort}, OverflowIndices, RepTimes,
                    OverflowFeedbacks)
    \/ GiveFeedback({"alice"}, {"mintA"}, {0}, {100}, {UriShort}, {0}, RepTimes,
                    OverflowFeedbacks)
    \/ GiveFeedback({"bob"}, {"mintA"}, {0}, {7}, {UriShort}, {0}, RepTimes, OverflowFeedbacks)
    \/ RevokeFeedback(RepClients, {0}, {0}, RepClients, RepTimes)
    \/ AppendResponse({"carol"}, {1}, {"alice"}, {LastFeedback}, {U64_MAX - 1, U64_MAX},
                      {UriShort}, RepTimes, MaxResponses)
    \/ RequestByOwner(Mints)
    \/ RespondToValidation({"carol"}, BoundaryRequestKeys, {80}, {UriShort}, {"hashR1"},
                           RepTimes)

SpecOverflow == InitOverflow /\ [][NextOverflow]_vars

----------------------------------------------------------------------------
(* Claims about the counters at the maximum of their width *)

\* register of a mint that is not registered yet.
RegisterAtLimit ==
    LET cfg == idAccounts[ConfigSeeds]
        r == register(RegisterIx("carol", "alice", "mintC", UriShort, <<>>, 1700000000))
    IN  AgentSeeds("mintC") \notin DOMAIN idAccounts =>
            IF cfg.next_agent_id = U64_MAX \/ cfg.total_agents = U64_MAX
            THEN r.err = "Overflow" /\ Committed(r.err, r.accounts, idAccounts) = idAccounts
            ELSE /\ r.err = Ok
                 /\ r.accounts[ConfigSeeds].next_agent_id = cfg.next_agent_id + 1
                 /\ r.accounts[ConfigSeeds].total_agents = cfg.total_agents + 1

\* give_feedback to agent 1 with the client's next index.
GiveFeedbackAtLimit ==
    \A client \in RepClients, score \in {0, 7, 100} :
        LET n == NextIndex(1, client)
            stats == Aggregate(1)
            r == give_feedback(GiveFeedbackIx(client, "mintB", 1, score, UriShort, n,
                                              1700000060))
        IN  IF \/ n = U64_MAX
               \/ stats.total_feedbacks = U64_MAX
               \/ stats.total_score_sum > U64_MAX - score
            THEN r.err = "Overflow" /\ Committed(r.err, r.accounts, repAccounts) = repAccounts
            ELSE /\ r.err = Ok
                 /\ r.accounts[ClientIndexSeeds(1, client)].last_index = n + 1
                 /\ r.accounts[AgentReputationSeeds(1)].total_feedbacks
                        = stats.total_feedbacks + 1
                 /\ r.accounts[AgentReputationSeeds(1)].total_score_sum
                        = stats.total_score_sum + score

\* append_response to the last feedback of alice for agent 1.
AppendResponseAtLimit ==
    LET sequence == repAccounts[ResponseIndexSeeds(1, "alice", LastFeedback)]
        r == append_response(AppendResponseIx("carol", 1, "alice", LastFeedback,
                                              sequence.next_index, UriShort, 1700000060))
    IN  IF sequence.next_index = U64_MAX
        THEN r.err = "Overflow" /\ Committed(r.err, r.accounts, repAccounts) = repAccounts
        ELSE /\ r.err = Ok
             /\ r.accounts[ResponseIndexSeeds(1, "alice", LastFeedback)].next_index
                    = sequence.next_index + 1

\* request_validation by the owner of an agent, for a request key that is free.
RequestAtLimit ==
    \A agent_mint \in Mints, validator \in ValValidators :
        LET agent == idAccounts[AgentSeeds(agent_mint)]
            cfg == valAccounts[ConfigSeeds]
            r == request_validation(RequestValidationIx(agent.owner, AgentSeeds(agent_mint),
                     agent.agent_id, validator, 0, UriShort, 1700000060))
        IN  ValidationSeeds(agent.agent_id, validator, 0) \notin DOMAIN valAccounts =>
                IF cfg.total_requests = U64_MAX
                THEN r.err = "Overflow" /\ Committed(r.err, r.accounts, valAccounts) = valAccounts
                ELSE /\ r.err = Ok
                     /\ r.accounts[ConfigSeeds].total_requests = cfg.total_requests + 1

\* The first response to a pending request.
RespondAtLimit ==
    \A key \in DOMAIN valAccounts :
        key[1] = "validation" /\ valAccounts[key].responded_at = 0 =>
            LET cfg == valAccounts[ConfigSeeds]
                r == respond_to_validation(RespondIx(valAccounts[key].validator_address, key,
                                                     80, UriShort, "hashR1", 1700000060))
            IN  IF cfg.total_responses = U64_MAX
                THEN r.err = "Overflow"
                ELSE /\ r.err = Ok
                     /\ r.accounts[ConfigSeeds].total_responses = cfg.total_responses + 1

\* revoke_feedback by the author of a feedback that is not revoked.
RevokeAtZero ==
    \A key \in FeedbackKeys :
        ~repAccounts[key].is_revoked =>
            LET stats == Aggregate(key[2])
                score == repAccounts[key].score
                r == revoke_feedback(RevokeFeedbackIx(key[3], key[2], key[4], key[3],
                                                      1700000060))
            IN  IF stats.total_feedbacks = 0 \/ stats.total_score_sum < score
                THEN r.err = "Overflow"
                     /\ Committed(r.err, r.accounts, repAccounts) = repAccounts
                ELSE /\ r.err = Ok
                     /\ r.accounts[AgentReputationSeeds(key[2])].total_feedbacks
                            = stats.total_feedbacks - 1
                     /\ r.accounts[AgentReputationSeeds(key[2])].total_score_sum
                            = stats.total_score_sum - score

\* C18: a counter or aggregate at the maximum of its width makes the instruction
\* that would increment it fail with Overflow and keeps its value, an
\* instruction that succeeds adds exactly what it counts, and a revocation that
\* would take total_feedbacks or total_score_sum below 0 fails with Overflow.
C18_NoCounterWraps ==
    /\ RegisterAtLimit
    /\ GiveFeedbackAtLimit
    /\ AppendResponseAtLimit
    /\ RequestAtLimit
    /\ RespondAtLimit
    /\ RevokeAtZero

\* next_agent_id, total_feedbacks of agent 1, the response sequence of alice's
\* last feedback and total_requests are all at the maximum, agent 0 has a
\* feedback whose revocation would take its aggregate below 0, and the last
\* give_feedback has failed with Overflow.
C18_Witness ==
    /\ last = Call("give_feedback", <<>>, "Overflow")
    /\ idAccounts[ConfigSeeds].next_agent_id = U64_MAX
    /\ Aggregate(1).total_feedbacks = U64_MAX
    /\ repAccounts[ResponseIndexSeeds(1, "alice", LastFeedback)].next_index = U64_MAX
    /\ valAccounts[ConfigSeeds].total_requests = U64_MAX
    /\ \E key \in Feedbacks(0) :
          /\ ~repAccounts[key].is_revoked
          /\ Aggregate(0).total_score_sum < repAccounts[key].score

----------------------------------------------------------------------------
(* Claims about requests built against the same sequence number *)

MintOf(agent_id) == IF agent_id = 0 THEN "mintA" ELSE "mintB"

NextResponseIndex(agent_id, client, feedback_index) ==
    IF ResponseIndexSeeds(agent_id, client, feedback_index) \in DOMAIN repAccounts
    THEN repAccounts[ResponseIndexSeeds(agent_id, client, feedback_index)].next_index
    ELSE 0

FeedbacksIn(accounts) == {key \in DOMAIN accounts : IsFeedback(key)}
ResponsesIn(accounts) == {key \in DOMAIN accounts : IsResponse(key)}

\* Requests of one client for one agent that carry the same index n: once one
\* of them has created the feedback (agent, client, n), every other one fails.
RacingFeedbacks ==
    \A client \in RepClients, agent_id \in RepAgentIds, n \in RepIndices, score \in {7, 100} :
        LET key == FeedbackSeeds(agent_id, client, n)
            r == give_feedback(GiveFeedbackIx(client, MintOf(agent_id), agent_id, score,
                                              UriShort, n, 1700000060))
        IN  IF key \in DOMAIN repAccounts
            THEN r.err # Ok /\ Committed(r.err, r.accounts, repAccounts) = repAccounts
            ELSE n = NextIndex(agent_id, client) =>
                    /\ r.err = Ok
                    /\ FeedbacksIn(r.accounts) = FeedbackKeys \cup {key}
                    /\ \A other \in FeedbackKeys : r.accounts[other] = repAccounts[other]

\* Responses to one feedback whose response account was derived from the same
\* observed next_index: once one of them has moved next_index on, or has
\* created that response account, every other one fails.
RacingResponses ==
    \A agent_id \in RepAgentIds, client \in RepClients, feedback_index \in RepIndices,
       observed \in 0 .. MaxResponses :
        FeedbackSeeds(agent_id, client, feedback_index) \in DOMAIN repAccounts =>
            LET key == ResponseSeeds(agent_id, client, feedback_index, observed)
                r == append_response(AppendResponseIx("carol", agent_id, client, feedback_index,
                                                      observed, UriShort, 1700000060))
            IN  IF \/ key \in DOMAIN repAccounts
                   \/ observed # NextResponseIndex(agent_id, client, feedback_index)
                THEN r.err # Ok /\ Committed(r.err, r.accounts, repAccounts) = repAccounts
                ELSE /\ r.err = Ok
                     /\ ResponsesIn(r.accounts) = ResponseKeys \cup {key}
                     /\ \A other \in ResponseKeys : r.accounts[other] = repAccounts[other]

\* C19: of the give_feedback requests of one client for one agent that carry
\* the same index, and of the append_response requests for one feedback that
\* were built against the same next_index, the first one to run creates one
\* record and every later one fails and changes nothing.
C19_OneOfRacingRequestsWins == RacingFeedbacks /\ RacingResponses

\* A second give_feedback with index 0 has just been rejected, and a response
\* built against next_index 0 has been written for agent 1, so that another
\* one built against 0 is now rejected.
C19_Witness ==
    /\ last = Call("give_feedback", <<>>, "AccountAlreadyInUse")
    /\ ResponseSeeds(1, "alice", 0, 0) \in DOMAIN repAccounts
    /\ NextResponseIndex(1, "alice", 0) = 1
    /\ append_response(AppendResponseIx("carol", 1, "alice", 0, 0, UriShort, 1700000060)).err
          = "ConstraintSeeds"

----------------------------------------------------------------------------
(* The records of the three registries, from their creation on *)

NextCreation ==
    \/ Initialize({"alice", "bob"})
    \/ RegisterEmpty({"alice"}, {"alice", "bob"}, {"mintA"}, IdTimes)
    \/ CreateMetadataExtension({"alice"}, {"mintA"}, {0})
    \/ SetMetadataExtended({"alice"}, {"mintA"}, {0}, {KeyName}, {Value1})
    \/ ValidationInitialize({"alice", "bob"}, {IdentityProgram})
    \/ RequestValidation({"alice"}, {AgentSeeds("mintA")}, {0}, {"carol"}, {0}, {UriShort},
                         RepTimes, MaxRequests)
    \/ RespondToValidation({"carol"}, {ValidationSeeds(0, "carol", 0)}, {80}, {UriShort},
                           {"hashR1"}, RepTimes)
    \/ GiveFeedback({"bob"}, {"mintA"}, {0}, {7}, {UriShort}, {0, 1}, RepTimes, MaxFeedbacks)

SpecCreation == InitIdentity /\ [][NextCreation]_vars

----------------------------------------------------------------------------
(* Claims about the creation of records *)

\* initialize of either registry, by any signer, when its config exists.
ConfigsAreKept ==
    /\ ConfigSeeds \in DOMAIN idAccounts =>
          \A authority \in Addresses :
              LET r == initialize([authority |-> authority, collection_mint |-> CollectionMint])
                  committed == Committed(r.err, r.accounts, idAccounts)
              IN  /\ r.err # Ok
                  /\ committed[ConfigSeeds] = idAccounts[ConfigSeeds]
                  /\ committed = idAccounts
    /\ ConfigSeeds \in DOMAIN valAccounts =>
          \A authority \in Addresses :
              LET r == validation_initialize([authority |-> authority,
                                              identity_registry |-> IdentityProgram])
                  committed == Committed(r.err, r.accounts, valAccounts)
              IN  /\ r.err # Ok
                  /\ committed[ConfigSeeds] = valAccounts[ConfigSeeds]
                  /\ committed = valAccounts

\* request_validation, give_feedback and create_metadata_extension for a key
\* that exists, by the signer that is entitled to create it.
RecordsAreKept ==
    /\ \A key \in DOMAIN valAccounts :
          key[1] = "validation" /\ AgentSeeds(MintOf(key[2])) \in DOMAIN idAccounts =>
              \A uri \in {UriShort, Uri200} :
                  LET r == request_validation(RequestValidationIx(
                               idAccounts[AgentSeeds(MintOf(key[2]))].owner,
                               AgentSeeds(MintOf(key[2])), key[2], key[3], key[4], uri,
                               1700000060))
                  IN  r.err # Ok /\ Committed(r.err, r.accounts, valAccounts) = valAccounts
    /\ \A key \in FeedbackKeys, score \in {7, 100} :
          LET r == give_feedback(GiveFeedbackIx(key[3], MintOf(key[2]), key[2], score,
                                                UriShort, key[4], 1700000060))
          IN  r.err # Ok /\ Committed(r.err, r.accounts, repAccounts) = repAccounts
    /\ \A key \in DOMAIN idAccounts :
          key[1] = "metadata_ext" =>
              LET r == create_metadata_extension(
                           ExtensionIx(idAccounts[AgentSeeds(key[2])].owner, key[2], key[3]))
              IN  r.err # Ok /\ Committed(r.err, r.accounts, idAccounts) = idAccounts

\* C20: an initialize of the identity or of the validation registry whose
\* config exists fails and keeps the config with its counters, and
\* request_validation, give_feedback and create_metadata_extension for a key
\* whose record exists fail and keep the record.
C20_CreateIfAbsent == ConfigsAreKept /\ RecordsAreKept

\* A second initialize has just failed; the identity registry has counted a
\* registration, the validation registry has counted a request and a response,
\* and a feedback and a metadata extension with an entry exist.
C20_Witness ==
    /\ last = Call("initialize", <<>>, "AccountAlreadyInUse")
    /\ ConfigSeeds \in DOMAIN idAccounts
    /\ idAccounts[ConfigSeeds].total_agents = 1
    /\ ConfigSeeds \in DOMAIN valAccounts
    /\ valAccounts[ConfigSeeds].total_requests = 1
    /\ valAccounts[ConfigSeeds].total_responses = 1
    /\ FeedbackSeeds(0, "bob", 0) \in DOMAIN repAccounts
    /\ MetadataExtSeeds("mintA", 0) \in DOMAIN idAccounts
    /\ Len(idAccounts[MetadataExtSeeds("mintA", 0)].metadata) = 1

----------------------------------------------------------------------------
(* Ownership: the agent NFTs at the token program and the cached owner *)

\* alice has two token accounts for mintA, bob has one for each mint.
OwnTokenAddresses ==
    {AssociatedTokenAccount("mintA", "alice"), AuxTokenAccount("mintA", "alice"),
     AssociatedTokenAccount("mintA", "bob"), AssociatedTokenAccount("mintB", "bob")}

NextOwnership ==
    \/ SplOpenAccount(OwnTokenAddresses)
    \/ SplTransfer(OwnTokenAddresses)
    \/ SyncOwner(Mints, OwnTokenAddresses)
    \/ TransferAgent({"alice", "bob"}, Mints, OwnTokenAddresses, OwnTokenAddresses)
    \/ SetAgentUri({"alice", "bob"}, {"mintA"}, {UriShort, Uri200})

SpecOwnership == InitRegistered /\ [][NextOwnership]_vars

----------------------------------------------------------------------------
(* Claims about the cached owner and the token program *)

RegisteredMints == {m \in Mints : AgentSeeds(m) \in DOMAIN idAccounts}

\* C21: sync_owner for an agent and an existing token account succeeds exactly
\* when the account is of the agent's mint and holds one unit; it then sets the
\* owner to the holder of that account, who is the holder of the agent token at
\* the token program, and changes nothing else; otherwise it fails with
\* InvalidTokenAccount and changes nothing.
C21_SyncFollowsHolder ==
    \A m \in RegisteredMints, t \in DOMAIN tokenAccounts :
        LET r == sync_owner([agent_mint |-> m, token_account |-> t])
            agent == idAccounts[AgentSeeds(m)]
        IN  IF tokenAccounts[t].mint = m /\ tokenAccounts[t].amount = 1
            THEN /\ r.err = Ok
                 /\ r.accounts = Put(idAccounts, AgentSeeds(m),
                                     [agent EXCEPT !.owner = tokenAccounts[t].owner])
                 /\ r.accounts[AgentSeeds(m)].owner = TokenHolder(m)
            ELSE r.err = "InvalidTokenAccount" /\ r.accounts = idAccounts

\* bob holds the token of mintA after a transfer at the token program, the
\* cached owner has just been synced to him, and alice's two accounts for the
\* mint are empty.
C21_Witness ==
    /\ last = Call("sync_owner", <<>>, Ok)
    /\ idAccounts[AgentSeeds("mintA")].owner = "bob"
    /\ TokenHolder("mintA") = "bob"
    /\ AuxTokenAccount("mintA", "alice") \in DOMAIN tokenAccounts
    /\ tokenAccounts[AssociatedTokenAccount("mintA", "alice")].amount = 0

TransferIx(owner, agent_mint, from, to) ==
    [owner |-> owner, agent_mint |-> agent_mint, from_token_account |-> from,
     to_token_account |-> to]

\* The transfers whose account constraints pass: the source is of the agent's
\* mint, belongs to the signer and holds the unit; the destination is of the
\* agent's mint.
PassesConstraints(ix) ==
    /\ AgentSeeds(ix.agent_mint) \in DOMAIN idAccounts
    /\ ix.from_token_account \in DOMAIN tokenAccounts
    /\ ix.to_token_account \in DOMAIN tokenAccounts
    /\ tokenAccounts[ix.from_token_account].mint = ix.agent_mint
    /\ tokenAccounts[ix.from_token_account].owner = ix.owner
    /\ tokenAccounts[ix.from_token_account].amount = 1
    /\ tokenAccounts[ix.to_token_account].mint = ix.agent_mint

TransferSamples ==
    {TransferIx(owner, agent_mint, from, to) :
        owner \in Addresses, agent_mint \in Mints,
        from \in OwnTokenAddresses, to \in OwnTokenAddresses}

\* C22: a transfer_agent whose source and destination token accounts have the
\* same holder fails with TransferToSelf, moves no token and leaves the agent
\* as it is, also when the two are different accounts of that holder.
C22_SameHolderIsRejected ==
    \A ix \in TransferSamples :
        PassesConstraints(ix)
        /\ tokenAccounts[ix.from_token_account].owner = tokenAccounts[ix.to_token_account].owner
        => LET r == transfer_agent(ix)
           IN  /\ r.err = "TransferToSelf"
               /\ r.accounts = idAccounts
               /\ r.tokens = tokenAccounts

\* The holders of the unit of `mint` in a set of token accounts.
HoldersIn(tokens, mint) ==
    {tokens[t].owner : t \in {a \in DOMAIN tokens : tokens[a].mint = mint /\ tokens[a].amount = 1}}

\* A transfer_agent succeeds only if the signer holds the unit in the source
\* account; it then moves the unit and sets the owner to the holder of the
\* destination; a transfer_agent that fails changes nothing.
TransferIsAllOrNothing ==
    \A ix \in TransferSamples :
        LET r == transfer_agent(ix) IN
        IF r.err = Ok
        THEN /\ PassesConstraints(ix)
             /\ HoldersIn(tokenAccounts, ix.agent_mint) = {ix.owner}
             /\ r.tokens[ix.to_token_account].amount = 1
             /\ HoldersIn(r.tokens, ix.agent_mint) = {tokenAccounts[ix.to_token_account].owner}
             /\ r.accounts = Put(idAccounts, AgentSeeds(ix.agent_mint),
                                 [idAccounts[AgentSeeds(ix.agent_mint)] EXCEPT
                                    !.owner = tokenAccounts[ix.to_token_account].owner])
        ELSE r.accounts = idAccounts /\ r.tokens = tokenAccounts

\* Right after a successful transfer_agent the cached owner of every agent
\* whose token moved is the holder of the token; a failed one moves nothing.
TransferKeepsCacheInStep ==
    last'.op = "transfer_agent" =>
        IF last'.err = Ok
        THEN \A m \in Mints :
                HoldersIn(tokenAccounts', m) # HoldersIn(tokenAccounts, m)
                \/ idAccounts'[AgentSeeds(m)] # idAccounts[AgentSeeds(m)]
                => HoldersIn(tokenAccounts', m) = {idAccounts'[AgentSeeds(m)].owner}
        ELSE UNCHANGED <<idAccounts, tokenAccounts>>

----------------------------------------------------------------------------
(* Claims about responses to feedback *)

\* The accounts of a store other than response sequences and responses.
OutsideResponses(accounts) ==
    [key \in {k \in DOMAIN accounts : k[1] \notin {"response_index", "response"}} |->
        accounts[key]]

\* C24: append_response for a feedback that does not exist fails; for one that
\* exists its outcome does not depend on the signer, and it succeeds for every
\* signer when the response account is the free account of the current
\* next_index; whether it succeeds or fails, it leaves every aggregate,
\* feedback and client sequence as it is.
C24_OpenAndFramed ==
    \A agent_id \in RepAgentIds, client \in RepClients, feedback_index \in {0, 1},
       observed \in 0 .. MaxResponses :
        LET key == ResponseSeeds(agent_id, client, feedback_index, observed)
            Response(signer) ==
                append_response(AppendResponseIx(signer, agent_id, client, feedback_index,
                                                 observed, UriShort, 1700000060))
        IN  \A signer \in Addresses :
                /\ OutsideResponses(Committed(Response(signer).err, Response(signer).accounts,
                                              repAccounts)) = OutsideResponses(repAccounts)
                /\ Response(signer).err = Ok =>
                      OutsideResponses(Response(signer).accounts) = OutsideResponses(repAccounts)
                /\ Response(signer).err = Response("carol").err
                /\ IF FeedbackSeeds(agent_id, client, feedback_index) \notin DOMAIN repAccounts
                   THEN Response(signer).err # Ok
                   ELSE observed = NextResponseIndex(agent_id, client, feedback_index)
                        /\ key \notin DOMAIN repAccounts
                        => Response(signer).err = Ok

\* carol, who is neither the owner of agent 1 (bob) nor the client of the
\* feedback (alice), has just appended a response to it.
C24_Witness ==
    /\ last = Call("append_response", <<>>, Ok)
    /\ ResponseSeeds(1, "alice", 0, 0) \in DOMAIN repAccounts
    /\ repAccounts[ResponseSeeds(1, "alice", 0, 0)].responder = "carol"
    /\ idAccounts[AgentSeeds("mintB")].owner # "carol"
    /\ repAccounts[FeedbackSeeds(1, "alice", 0)].client_address # "carol"

ResponsesTo(feedback) ==
    {key \in ResponseKeys : key[2] = feedback[2] /\ key[3] = feedback[3] /\ key[4] = feedback[4]}

\* C25: for every feedback of every agent id, the responses are stored at the
\* addresses of the indices 0 .. n-1, each with its index in response_index,
\* next_index is n once a response exists, and a further response built
\* against n is accepted.
C25_SequentialResponses ==
    \A feedback \in FeedbackKeys :
        LET n == Cardinality(ResponsesTo(feedback))
        IN  /\ {key[5] : key \in ResponsesTo(feedback)} = 0 .. (n - 1)
            /\ \A key \in ResponsesTo(feedback) : repAccounts[key].response_index = key[5]
            /\ NextResponseIndex(feedback[2], feedback[3], feedback[4]) = n
            /\ append_response(AppendResponseIx("carol", feedback[2], feedback[3], feedback[4],
                                                 n, UriShort, 1700000060)).err = Ok

----------------------------------------------------------------------------
(* Claims about the feedback records *)

\* C26: every step keeps every feedback record, with all of its fields; the
\* one change a step makes to a record is to set is_revoked, and a record that
\* is revoked stays revoked.
C26_FeedbackIsKept ==
    [][\A key \in FeedbackKeys :
          /\ key \in DOMAIN repAccounts'
          /\ \/ repAccounts'[key] = repAccounts[key]
             \/ /\ ~repAccounts[key].is_revoked
                /\ repAccounts'[key] = [repAccounts[key] EXCEPT !.is_revoked = TRUE]]_vars

\* A feedback with a response has just been revoked; record and response are
\* still there.
C26_Witness ==
    /\ last = Call("revoke_feedback", <<>>, Ok)
    /\ FeedbackSeeds(1, "alice", 0) \in DOMAIN repAccounts
    /\ repAccounts[FeedbackSeeds(1, "alice", 0)].is_revoked
    /\ repAccounts[FeedbackSeeds(1, "alice", 0)].score = 7
    /\ ResponseSeeds(1, "alice", 0, 0) \in DOMAIN repAccounts
    /\ FeedbackSeeds(1, "alice", 1) \in DOMAIN repAccounts

----------------------------------------------------------------------------
(* Address derivation: the seeds of the program-derived addresses as bytes *)

\* b"..." : the bytes of a tag.
TagBytes(tag) ==
    CASE tag = "config" -> <<99, 111, 110, 102, 105, 103>>
      [] tag = "agent" -> <<97, 103, 101, 110, 116>>
      [] tag = "metadata_ext" -> <<109, 101, 116, 97, 100, 97, 116, 97, 95, 101, 120, 116>>
      [] tag = "client_index" -> <<99, 108, 105, 101, 110, 116, 95, 105, 110, 100, 101, 120>>
      [] tag = "feedback" -> <<102, 101, 101, 100, 98, 97, 99, 107>>
      [] tag = "agent_reputation" -> <<97, 103, 101, 110, 116, 95, 114, 101, 112, 117, 116, 97, 116, 105, 111, 110>>
      [] tag = "response_index" -> <<114, 101, 115, 112, 111, 110, 115, 101, 95, 105, 110, 100, 101, 120>>
      [] tag = "response" -> <<114, 101, 115, 112, 111, 110, 115, 101>>
      [] tag = "validation" -> <<118, 97, 108, 105, 100, 97, 116, 105, 111, 110>>

\* u64::to_le_bytes / u32::to_le_bytes without the fixed width: the bytes up
\* to the most significant one that is not 0.
RECURSIVE to_le_bytes_trimmed(_, _)
to_le_bytes_trimmed(n, width) ==
    IF n = 0 THEN <<>> ELSE <<n % 256>> \o to_le_bytes_trimmed(n \div 256, width - 1)

\* u64::to_le_bytes (width 8) / u32::to_le_bytes (width 4)
RECURSIVE to_le_bytes(_, _)
to_le_bytes(n, width) ==
    IF width = 0 THEN <<>> ELSE <<n % 256>> \o to_le_bytes(n \div 256, width - 1)

Zeros(n) == [i \in 1 .. n |-> 0]

\* Pubkey::as_ref: the 32 bytes of an address.  "ones" is 32 bytes of 1 and
\* "underscoreIndex" starts with the bytes of "_index".
PubkeyBytes(address) ==
    CASE address = "alice" -> <<1>> \o Zeros(31)
      [] address = "bob" -> <<2>> \o Zeros(31)
      [] address = "ones" -> [i \in 1 .. 32 |-> 1]
      [] address = "underscoreIndex" -> <<95, 105, 110, 100, 101, 120>> \o Zeros(26)

\* The concatenation of the seeds of an account, as the program derives it.
SeedBytes(key) ==
    CASE key[1] = "config" -> TagBytes(key[1])
      [] key[1] = "agent" -> TagBytes(key[1]) \o PubkeyBytes(key[2])
      [] key[1] = "metadata_ext" -> TagBytes(key[1]) \o PubkeyBytes(key[2]) \o <<key[3]>>
      [] key[1] = "client_index" ->
            TagBytes(key[1]) \o to_le_bytes(key[2], 8) \o PubkeyBytes(key[3])
      [] key[1] \in {"feedback", "response_index"} ->
            TagBytes(key[1]) \o to_le_bytes(key[2], 8) \o PubkeyBytes(key[3])
                \o to_le_bytes(key[4], 8)
      [] key[1] = "agent_reputation" -> TagBytes(key[1]) \o to_le_bytes(key[2], 8)
      [] key[1] = "response" ->
            TagBytes(key[1]) \o to_le_bytes(key[2], 8) \o PubkeyBytes(key[3])
                \o to_le_bytes(key[4], 8) \o to_le_bytes(key[5], 8)
      [] key[1] = "validation" ->
            TagBytes(key[1]) \o to_le_bytes(key[2], 8) \o PubkeyBytes(key[3])
                \o to_le_bytes(key[4], 4)

\* Identifiers whose bytes are easy to confuse: 0 and 1, 256 (the bytes 0, 1)
\* and the u64 whose first four bytes are "_ind".
SeedU64s == {0, 1, 256, 95 + 105 * 256 + 110 * 65536 + 100 * 2 ^ 24}
SeedU32s == {0, 1, 256}
SeedU8s == {0, 1, 255}
SeedPubkeys == {"alice", "bob", "ones", "underscoreIndex"}

IdentitySeeds ==
    {ConfigSeeds} \cup {AgentSeeds(m) : m \in SeedPubkeys}
        \cup {MetadataExtSeeds(m, i) : m \in SeedPubkeys, i \in SeedU8s}

ReputationSeeds ==
    {ClientIndexSeeds(a, c) : a \in SeedU64s, c \in SeedPubkeys}
        \cup {AgentReputationSeeds(a) : a \in SeedU64s}
        \cup {FeedbackSeeds(a, c, i) : a \in SeedU64s, c \in SeedPubkeys, i \in SeedU64s}
        \cup {ResponseIndexSeeds(a, c, i) : a \in SeedU64s, c \in SeedPubkeys, i \in SeedU64s}
        \cup {ResponseSeeds(a, c, i, r) :
                 a \in SeedU64s, c \in SeedPubkeys, i \in SeedU64s, r \in SeedU64s}

ValidationRegistrySeeds ==
    {ConfigSeeds}
        \cup {ValidationSeeds(a, v, n) : a \in SeedU64s, v \in SeedPubkeys, n \in SeedU32s}

SeedsOf(program) ==
    CASE program = "identity" -> IdentitySeeds
      [] program = "reputation" -> ReputationSeeds
      [] program = "validation" -> ValidationRegistrySeeds

\* A client derives the address of an account of one of the programs.
DeriveAddress(program) ==
    \E key \in SeedsOf(program) :
        /\ last' = [op |-> "find_program_address", err |-> Ok, program |-> program,
                    key |-> key, seeds |-> SeedBytes(key)]
        /\ UNCHANGED <<idAccounts, tokenAccounts, registeredEvents, repAccounts, valAccounts>>

NextSeeds ==
    \/ DeriveAddress("identity")
    \/ DeriveAddress("reputation")
    \/ DeriveAddress("validation")

SpecSeeds == InitIdentity /\ [][NextSeeds]_vars

----------------------------------------------------------------------------
(* Claims about address derivation *)

\* C27: within one program, two different accounts (tag and identifiers) never
\* have the same concatenation of seed bytes.
C27_SeedsAreInjective ==
    last.op = "find_program_address" =>
        \A key \in SeedsOf(last.program) : key # last.key => SeedBytes(key) # last.seeds

\* The address of a response has been derived whose agent id starts with the
\* bytes "_ind", next to the response sequence whose tag continues "response"
\* with "_index".
C27_Witness ==
    /\ last.op = "find_program_address"
    /\ last.key = ResponseSeeds(95 + 105 * 256 + 110 * 65536 + 100 * 2 ^ 24, "ones", 1, 0)
    /\ Len(last.seeds) = 64
    /\ Len(SeedBytes(ResponseIndexSeeds(0, "ones", 1))) = 62

----------------------------------------------------------------------------
(* Claims about revocation *)

\* C28: revoke_feedback by the client who gave a feedback that is not revoked
\* succeeds in every reachable state, for every agent id: it never fails
\* because total_feedbacks or total_score_sum would go below 0.
C28_AuthorCanRevoke ==
    \A key \in FeedbackKeys :
        ~repAccounts[key].is_revoked =>
            revoke_feedback(RevokeFeedbackIx(key[3], key[2], key[4], key[3],
                                             1700000060)).err = Ok

----------------------------------------------------------------------------
(* Claims about the owner gate and the token holder *)

\* C29: in every reachable state, also after the agent token has moved at the
\* token program with no sync_owner after it, set_metadata, set_agent_uri and
\* set_metadata_extended succeed only for the address that holds the agent
\* token.
C29_GatedByHolder ==
    \A m \in RegisteredMints, s \in Addresses :
        s # TokenHolder(m) =>
            /\ set_agent_uri(SetAgentUriIx(s, m, UriShort)).err # Ok
            /\ set_metadata(SetMetadataIx(s, m, KeyName, Value1)).err # Ok
            /\ set_metadata_extended(SetMetadataExtendedIx(s, m, 0, KeyName, Value1)).err # Ok

----------------------------------------------------------------------------
(* Validation registry: responses that follow a first response *)

RespondingRequests == {ValidationSeeds(a, "carol", 0) : a \in ValAgentIds}
FirstTimes == {1700000060}
LaterTimes == {1700000120}

\* update_validation as its callers use it: on a request that has a response.
UpdateResponded(validators, requests, responses, uris, hashes, times) ==
    /\ \E key \in requests : key \in DOMAIN valAccounts /\ valAccounts[key].responded_at # 0
    /\ UpdateValidation(validators,
                        {key \in requests :
                            key \in DOMAIN valAccounts /\ valAccounts[key].responded_at # 0},
                        responses, uris, hashes, times)

NextResponding ==
    \/ ValidationInitialize({"alice"}, {IdentityProgram})
    \/ RequestValidation(ValRequesters, ValAgentAccounts, ValAgentIds, {"carol"}, ValNonces,
                         {UriShort}, FirstTimes, MaxRequests)
    \/ RespondToValidation(ValValidators, RespondingRequests, ValResponses, {UriShort},
                           ValHashes, FirstTimes \cup LaterTimes)
    \/ UpdateResponded(ValValidators, RespondingRequests, ValResponses, {UriShort}, ValHashes,
                       LaterTimes)
    \/ CloseValidation({"carol"}, RespondingRequests)

SpecResponding == InitRegistered /\ [][NextResponding]_vars

----------------------------------------------------------------------------
(* Claims about requests that have a response *)

RespondedRequests ==
    {key \in RespondingRequests : key \in DOMAIN valAccounts /\ valAccounts[key].responded_at # 0}

\* No state is terminal: the validator of a request that has a response can
\* respond again, through either instruction, and the request keeps a response.
FurtherResponseIsAccepted ==
    \A key \in RespondedRequests, response \in {0, 80, 100}, response_hash \in ValHashes,
       now \in FirstTimes \cup LaterTimes :
        LET ix == RespondIx(valAccounts[key].validator_address, key, response, UriShort,
                            response_hash, now)
            r == respond_to_validation(ix)
            u == update_validation(ix)
        IN  /\ r.err = Ok
            /\ r.accounts[key].responded_at = now
            /\ r.accounts[key].response = response
            /\ r.accounts[key].response_hash = response_hash
            /\ u.err = Ok
            /\ u.accounts = r.accounts

\* No step takes a request that exists before and after it from having a
\* response back to having none.
StaysResponded ==
    \A key \in RespondedRequests :
        key \in DOMAIN valAccounts' => valAccounts'[key].responded_at # 0

\* C30: a request that has a response keeps one for as long as its record
\* exists (timestamps are positive): no respond_to_validation or
\* update_validation sets responded_at back to 0, and a further response by
\* the validator is always accepted.
C30_StaysResponded == []FurtherResponseIsAccepted /\ [][StaysResponded]_vars

\* update_validation has replaced the response of a request, at the later time.
C30_Witness ==
    /\ last = Call("update_validation", <<>>, Ok)
    /\ ValidationSeeds(0, "carol", 0) \in RespondedRequests
    /\ valAccounts[ValidationSeeds(0, "carol", 0)].responded_at = 1700000120
    /\ valAccounts[ValidationSeeds(0, "carol", 0)].response = 0
    /\ valAccounts[ConfigSeeds].total_responses = 1

----------------------------------------------------------------------------
(* Claims about the counters of the validation registry *)

HasValidationConfig(accounts) == ConfigSeeds \in DOMAIN accounts

\* The fields of a request that the request instruction sets and a response
\* leaves alone.
RequestIdentity(request) ==
    <<request.agent_id, request.validator_address, request.nonce, request.request_hash,
      request.created_at>>

\* C31: no instruction decreases total_requests or total_responses;
\* close_validation leaves both as they are; respond_to_validation and
\* update_validation leave total_requests and every request's agent_id,
\* validator_address, nonce, request_hash and created_at as they are.
CountersOnlyGrow ==
    (HasValidationConfig(valAccounts) /\ valAccounts' # valAccounts) =>
        /\ HasValidationConfig(valAccounts')
        /\ valAccounts'[ConfigSeeds].total_requests >= valAccounts[ConfigSeeds].total_requests
        /\ valAccounts'[ConfigSeeds].total_responses >= valAccounts[ConfigSeeds].total_responses
        /\ last'.op = "close_validation" => valAccounts'[ConfigSeeds] = valAccounts[ConfigSeeds]
        /\ last'.op \in {"respond_to_validation", "update_validation"} =>
                /\ valAccounts'[ConfigSeeds].total_requests
                     = valAccounts[ConfigSeeds].total_requests
                /\ DOMAIN valAccounts' = DOMAIN valAccounts
                /\ \A key \in ValRequests \cap DOMAIN valAccounts :
                        RequestIdentity(valAccounts'[key]) = RequestIdentity(valAccounts[key])

C31_CountersOnlyGrow == [][CountersOnlyGrow]_vars

\* A request that has a response has been closed: the counters still count it.
C31_Witness ==
    /\ last = Call("close_validation", <<>>, Ok)
    /\ valAccounts[ConfigSeeds].total_requests = 2
    /\ valAccounts[ConfigSeeds].total_responses = 1
    /\ Cardinality(DOMAIN valAccounts) = 2
    /\ \A key \in ValRequests \cap DOMAIN valAccounts : valAccounts[key].responded_at = 0

----------------------------------------------------------------------------
(* Reputation registry: FeedbackAuth *)

\* fn construct_message: the fields the signer signs, under the prefix
\* "feedback_auth"; signer_address and signature are not part of it.
construct_message(auth) ==
    <<"feedback_auth", auth.agent_id, auth.client_address, auth.index_limit, auth.expiry,
      auth.chain_id, auth.identity_registry>>

\* An Ed25519 signature, taken as ideal: it is valid for the key that made it
\* and the message it was made over, and for nothing else.
Ed25519Sign(signer, message) == [by |-> signer, over |-> message]

\* An expiry check that accepts the expiry time itself.
NotExpired_inclusive(auth, current_time) == current_time <= auth.expiry

\* require!(current_time < self.expiry, FeedbackAuthExpired)
NotExpired(auth, current_time) == current_time < auth.expiry

\* FeedbackAuth::verify.  The message is constructed and the signature is not
\* compared with anything.
verify(auth, client, current_index, current_time) ==
    IF ~(auth.client_address = client) THEN "FeedbackAuthClientMismatch"
    ELSE IF ~NotExpired(auth, current_time) THEN "FeedbackAuthExpired"
    ELSE IF ~(current_index < auth.index_limit) THEN "FeedbackAuthIndexLimitExceeded"
    ELSE LET message == construct_message(auth) IN Ok

\* The authorisations expire at the time of the sample calls.
AuthExpiry == CHOOSE t \in RepTimes : TRUE

FeedbackAuth(client_address, index_limit, signature) ==
    [agent_id |-> 1, client_address |-> client_address, index_limit |-> index_limit,
     expiry |-> AuthExpiry, chain_id |-> "solana-devnet", identity_registry |-> IdentityProgram,
     signer_address |-> "bob", signature |-> signature]

\* Authorisations signed by the agent's owner, signed by somebody else, and
\* carrying the owner's signature over a smaller index limit.
AuthSamples ==
    {FeedbackAuth(c, n, Ed25519Sign("bob", construct_message(FeedbackAuth(c, n, <<>>)))) :
        c \in RepClients, n \in {1, 2}}
    \cup {FeedbackAuth(c, n, Ed25519Sign("carol", construct_message(FeedbackAuth(c, n, <<>>)))) :
            c \in RepClients, n \in {1, 2}}
    \cup {FeedbackAuth(c, 2, Ed25519Sign("bob", construct_message(FeedbackAuth(c, 1, <<>>)))) :
            c \in RepClients}

Verify(auths, clients, indices, times) ==
    \E auth \in auths, client \in clients, current_index \in indices, current_time \in times :
        /\ last' = [op |-> "verify", err |-> verify(auth, client, current_index, current_time),
                    auth |-> auth, client |-> client, current_index |-> current_index,
                    current_time |-> current_time]
        /\ UNCHANGED <<idAccounts, tokenAccounts, registeredEvents, repAccounts, valAccounts>>

NextFeedbackAuth ==
    Verify(AuthSamples, RepClients, {0, 1, 2}, {AuthExpiry - 1, AuthExpiry, AuthExpiry + 1})

SpecFeedbackAuth == InitRegistered /\ [][NextFeedbackAuth]_vars

----------------------------------------------------------------------------
(* Claims about FeedbackAuth *)

\* C32: verify returns Ok only for the client of the authorisation, strictly
\* before the expiry and with an index strictly below the limit; at the expiry
\* time it returns FeedbackAuthExpired and at the limit
\* FeedbackAuthIndexLimitExceeded; of several failing checks the first in the
\* order client, expiry, index limit gives the error.
C32_VerifyChecksInOrder ==
    last.op = "verify" =>
        LET clientMatches == last.auth.client_address = last.client
            expired == last.current_time >= last.auth.expiry
            overLimit == last.current_index >= last.auth.index_limit
        IN  /\ last.err = Ok => clientMatches /\ ~expired /\ ~overLimit
            /\ ~clientMatches => last.err = "FeedbackAuthClientMismatch"
            /\ clientMatches /\ expired => last.err = "FeedbackAuthExpired"
            /\ clientMatches /\ ~expired /\ overLimit
                  => last.err = "FeedbackAuthIndexLimitExceeded"

\* verify has been called at the expiry time itself, by the client and with an
\* index over the limit as well.
C32_Witness ==
    /\ last.op = "verify"
    /\ last.auth.client_address = last.client
    /\ last.current_time = last.auth.expiry
    /\ last.current_index = last.auth.index_limit
    /\ last.err = "FeedbackAuthExpired"

\* C33: verify returns Ok only if the signature is a valid signature by
\* signer_address over the constructed message.
C33_SignatureIsVerified ==
    (last.op = "verify" /\ last.err = Ok) =>
        last.auth.signature = Ed25519Sign(last.auth.signer_address, construct_message(last.auth))

----------------------------------------------------------------------------
(* Claims about the counters of the identity registry *)

AgentAccounts(accounts) == {k \in DOMAIN accounts : k[1] = "agent"}
AgentIds(accounts) == {accounts[k].agent_id : k \in AgentAccounts(accounts)}

\* total_agents = next_agent_id = the number of agents, whose ids are
\* 0 .. next_agent_id - 1.
AgentsAreCounted ==
    IF ConfigSeeds \in DOMAIN idAccounts
    THEN LET cfg == idAccounts[ConfigSeeds] IN
         /\ cfg.total_agents = cfg.next_agent_id
         /\ cfg.next_agent_id = Cardinality(AgentAccounts(idAccounts))
         /\ AgentIds(idAccounts) = 0 .. cfg.next_agent_id - 1
    ELSE AgentAccounts(idAccounts) = {}

\* Only the register instructions change the config or add an agent, and no
\* instruction changes the id of an agent.
OnlyRegisterCounts ==
    /\ \A k \in AgentAccounts(idAccounts) :
            k \in DOMAIN idAccounts' /\ idAccounts'[k].agent_id = idAccounts[k].agent_id
    /\ (/\ ConfigSeeds \in DOMAIN idAccounts
        /\ last'.op \notin {"register_empty", "register", "register_with_metadata"})
       => /\ ConfigSeeds \in DOMAIN idAccounts'
          /\ idAccounts'[ConfigSeeds] = idAccounts[ConfigSeeds]
          /\ AgentAccounts(idAccounts') = AgentAccounts(idAccounts)

\* C34: in every reachable state of the identity registry total_agents =
\* next_agent_id = the number of agent records, the ids of the agents are
\* exactly 0 .. next_agent_id - 1, and no instruction other than register
\* changes the config or an agent's id.
C34_AgentsAreCounted == []AgentsAreCounted /\ [][OnlyRegisterCounts]_vars

\* Two agents are registered and the owner of one has just changed its URI.
C34_Witness ==
    /\ last = Call("set_agent_uri", <<>>, Ok)
    /\ idAccounts[ConfigSeeds].next_agent_id = 2
    /\ AgentIds(idAccounts) = {0, 1}
    /\ \E k \in AgentAccounts(idAccounts) : idAccounts[k].token_uri # EmptyString

RespondedIn(accounts) ==
    {key \in ValRequests \cap DOMAIN accounts : accounts[key].responded_at > 0}

\* C35: in every reachable state of the validation registry, also after a
\* request has been closed and requested again under the same (agent,
\* validator, nonce), total_responses <= total_requests and at most
\* total_responses of the existing requests have a response.
C35_ResponsesWithinRequests ==
    IF HasValidationConfig(valAccounts)
    THEN /\ valAccounts[ConfigSeeds].total_responses <= valAccounts[ConfigSeeds].total_requests
         /\ Cardinality(RespondedIn(valAccounts)) <= valAccounts[ConfigSeeds].total_responses
    ELSE DOMAIN valAccounts = {}

\* Both counters are 2 and one request exists, with a response: a request that
\* had a response has been closed, as when a key is answered, closed, requested
\* again and answered again.
C35_Witness ==
    /\ HasValidationConfig(valAccounts)
    /\ valAccounts[ConfigSeeds].total_requests = 2
    /\ valAccounts[ConfigSeeds].total_responses = 2
    /\ Cardinality(DOMAIN valAccounts) = 2
    /\ Cardinality(RespondedIn(valAccounts)) = 1

----------------------------------------------------------------------------
(* Claims about the cached statistics *)

\* The quotient the average is cast from, as the handlers compute it.
AverageBeforeCast(stats) ==
    IF stats.total_feedbacks = 0 THEN 0 ELSE stats.total_score_sum \div stats.total_feedbacks

\* C36: in every reachable state the average_score of every agent's statistics
\* is in 0 .. 100: the quotient total_score_sum / total_feedbacks is at most 100
\* and the cast to 8 bits has kept its value.
C36_AverageInRange ==
    \A agent_id \in RepAgentIds :
        HasAggregate(agent_id) =>
            /\ Aggregate(agent_id).average_score \in 0 .. 100
            /\ AverageBeforeCast(Aggregate(agent_id)) <= 100
            /\ Aggregate(agent_id).average_score = AverageBeforeCast(Aggregate(agent_id))

\* A revocation has left agent 1 with two feedbacks of score 100: the sum is
\* 200 and the average is 100.
C36_Witness ==
    /\ last = Call("revoke_feedback", <<>>, Ok)
    /\ HasAggregate(1)
    /\ Aggregate(1).total_feedbacks = 2
    /\ Aggregate(1).total_score_sum = 200
    /\ Aggregate(1).average_score = 100

----------------------------------------------------------------------------
(* Claims about feedback of different clients *)

StatsOf(metadata) ==
    <<metadata.total_feedbacks, metadata.total_score_sum, metadata.average_score>>

\* The statistics of an agent after the give_feedback `first` and then a
\* give_feedback of another client with the score `second_score`.
StatsAfterBoth(first, second_score) ==
    StatsOf(AddToStats(give_feedback(first).accounts[AgentReputationSeeds(first.agent_id)],
                       first.agent_id, second_score))

\* C37: two valid give_feedback calls of two different clients for one agent,
\* id 0 included, leave the same statistics (total_feedbacks, total_score_sum,
\* average_score) in either order.
C37_GivesCommute ==
    \A agent_id \in RepAgentIds, score_a \in {7, 100}, score_b \in {7, 100} :
        LET by_alice == GiveFeedbackIx("alice", MintOf(agent_id), agent_id, score_a, UriShort,
                                       NextIndex(agent_id, "alice"), 1700000060)
            by_bob == GiveFeedbackIx("bob", MintOf(agent_id), agent_id, score_b, UriShort,
                                     NextIndex(agent_id, "bob"), 1700000060)
        IN  (give_feedback(by_alice).err = Ok /\ give_feedback(by_bob).err = Ok)
                => StatsAfterBoth(by_alice, score_b) = StatsAfterBoth(by_bob, score_a)

\* The accounts a give_feedback or revoke_feedback of `client` for `agent_id`
\* may write: the client's sequence and feedback for the agent, and the
\* agent's statistics.
WrittenBy(client, agent_id) ==
    {ClientIndexSeeds(agent_id, client), AgentReputationSeeds(agent_id)}
        \cup {FeedbackSeeds(agent_id, client, n) : n \in RepIndices}

SameOutside(written, accounts) ==
    \A key \in (DOMAIN repAccounts \cup DOMAIN accounts) \ written :
        key \in DOMAIN repAccounts /\ key \in DOMAIN accounts /\ accounts[key] = repAccounts[key]

\* A give_feedback or revoke_feedback of a client for an agent, whatever it
\* names and whether it succeeds, leaves every other account as it is.
OthersAreLeftAlone ==
    \A client \in RepClients, agent_id \in RepAgentIds, n \in RepIndices :
        /\ \A score \in RepScores, agent_mint \in Mints :
              LET r == give_feedback(GiveFeedbackIx(client, agent_mint, agent_id, score,
                                                    UriShort, n, 1700000060))
              IN  SameOutside(WrittenBy(client, agent_id),
                              Committed(r.err, r.accounts, repAccounts))
        /\ \A author \in RepClients :
              LET r == revoke_feedback(RevokeFeedbackIx(client, agent_id, n, author,
                                                        1700000060))
              IN  SameOutside(WrittenBy(client, agent_id),
                              Committed(r.err, r.accounts, repAccounts))

\* A give_feedback that a client could make before a step in which the client
\* gave no feedback to that agent can still be made after it.
OthersStayAccepted ==
    repAccounts' # repAccounts =>
        \A client \in RepClients, agent_id \in RepAgentIds :
            \A n \in {NextIndex(agent_id, client)} :
                LET ix == GiveFeedbackIx(client, MintOf(agent_id), agent_id, 7, UriShort, n,
                                         1700000060)
                IN  (/\ FeedbackSeeds(agent_id, client, n) \notin DOMAIN repAccounts'
                     /\ give_feedback(ix).err = Ok)
                    => give_feedback(ix)'.err = Ok

\* C38: the sequences of the clients are independent: a give_feedback or
\* revoke_feedback of client A for agent X leaves the sequence and feedback of
\* every other client for X, every sequence and feedback for another agent and
\* the statistics of every other agent as they are, and no step of A makes the
\* give_feedback of B with B's next index fail.
C38_ClientsAreIndependent == []OthersAreLeftAlone /\ [][OthersStayAccepted]_vars

\* alice has given two feedbacks to agent 1 and bob one, the step before being
\* a give_feedback.
C38_Witness ==
    /\ last = Call("give_feedback", <<>>, Ok)
    /\ NextIndex(1, "alice") = 2
    /\ NextIndex(1, "bob") = 1
    /\ Cardinality(Feedbacks(1)) = 3

----------------------------------------------------------------------------
(* Registration with an initial metadata list chosen by the caller *)

\* Initial lists: empty, one entry, two entries with two keys, and two entries
\* with the same key.
InitialLists ==
    {<<>>,
     <<MetadataEntry(KeyName, Value1)>>,
     <<MetadataEntry(KeyName, Value1), MetadataEntry(Key32, Value1)>>,
     <<MetadataEntry(KeyName, Value1), MetadataEntry(KeyName, Value256)>>}

NextInitialLists ==
    \/ Initialize({"alice"})
    \/ RegisterWithMetadata(IdSigners, {"alice"}, Mints, {UriShort}, InitialLists, IdTimes)
    \/ SetMetadata(IdSigners, Mints, {KeyName, Key32}, {Value1, Value256})

SpecInitialLists == InitIdentity /\ [][NextInitialLists]_vars

----------------------------------------------------------------------------
(* Claims about the keys of the base metadata list *)

\* C39: in every reachable state the keys of an agent's base metadata list are
\* pairwise distinct, also after register_with_metadata with an initial list
\* of the caller's choice and after set_metadata, so that every entry of the
\* list is the one get_metadata returns for its key.
C39_KeysAreDistinct ==
    \A m \in RegisteredMints :
        LET agent == idAccounts[AgentSeeds(m)] IN
        /\ \A i \in 1 .. Len(agent.metadata), j \in 1 .. Len(agent.metadata) :
                i # j => agent.metadata[i].key # agent.metadata[j].key
        /\ \A i \in 1 .. Len(agent.metadata) :
                get_metadata(agent, agent.metadata[i].key) = agent.metadata[i].value

====
